---- MODULE Spec2Model ----
(***************************************************************************)
(* The pose coaching engine of the MediaPipe fitness coach: utils.js       *)
(* (calculateAngle, getLandmarkCoordinates, verifyPosture,                 *)
(* checkPostureCorrectness) and the PoseCoach class of pose-coach.js.      *)
(*                                                                         *)
(* Units.  Landmark coordinates are normalized to [0,1] in the code; here  *)
(* they are whole twentieths (0..20), so the code's 0.1 is 2, 0.05 is 1    *)
(* and 0.15 is 3.  Angles are whole degrees: calculateAngle's double is    *)
(* truncated with a table of cos^2 at every degree.  Times are the         *)
(* milliseconds of Date.now().                                             *)
(***************************************************************************)
EXTENDS Integers, Sequences, FiniteSets, TLC

VARIABLES coach, now, call, ret, said, sumTrace, ccArgs, ccRet, log, app, fn

vars == <<coach, now, call, ret, said, sumTrace, ccArgs, ccRet, log, app, fn>>

(***************************************************************************)
(* Bounds of the model.                                                    *)
(***************************************************************************)
\* evaluate calls per behaviour of Spec
MaxCalls == 2
\* evaluate calls per behaviour of SpecPushup
MaxPushupCalls == 6
\* direct analyzePushup calls per behaviour of SpecReps
MaxReps == 6
\* checkPostureCorrectness calls per behaviour of SpecCheck
MaxChecks == 1
\* evaluate calls per behaviour of SpecRing
MaxRingCalls == 12
\* start requests, and frames sent to the pose model, per behaviour of SpecApp
MaxStarts == 3
MaxAppFrames == 3
\* frames sent to the pose model whose results have not arrived
MaxPending == 1
\* evaluate calls per behaviour of SpecSentinel
MaxSentinelCalls == 4
\* evaluate calls per behaviour of SpecHandstand
MaxHandstandCalls == 4
\* analyzePushup calls per behaviour of SpecMilestone
MaxMilestoneCalls == 50
\* clock ticks per behaviour
MaxTicks == 1
\* Date.now() at construction and the length of one tick, in ms
StartTime == 10000
TickMs == 5000

(***************************************************************************)
(* utils.js: geometry                                                      *)
(***************************************************************************)
Abs(n) == IF n < 0 THEN -n ELSE n

\* 3000 * cos^2(k degrees), k = 0..90, the table Math.acos is read from
CosScale == 3000
Cos2Table ==
    <<3000, 2999, 2996, 2992, 2985, 2977, 2967, 2955, 2942, 2927, 2910, 2891, 2870,
      2848, 2824, 2799, 2772, 2744, 2714, 2682, 2649, 2615, 2579, 2542, 2504, 2464,
      2423, 2382, 2339, 2295, 2250, 2204, 2158, 2110, 2062, 2013, 1964, 1913, 1863,
      1812, 1760, 1709, 1657, 1605, 1552, 1500, 1448, 1395, 1343, 1291, 1240, 1188,
      1137, 1087, 1036, 987, 938, 890, 842, 796, 750, 705, 661, 618, 577,
      536, 496, 458, 421, 385, 351, 318, 286, 256, 228, 201, 176, 152,
      130, 109, 90, 73, 58, 45, 33, 23, 15, 8, 4, 1, 0>>
Cos2(k) == Cos2Table[(IF k <= 90 THEN k ELSE 180 - k) + 1]

\* Math.acos(cosineAngle) * (180 / Math.PI) in whole degrees, the cosine
\* given as dot / sqrt(mag2)
AcosDegrees(dot, mag2) ==
    IF dot >= 0
    THEN CHOOSE k \in 0..90 :
            /\ dot * dot * CosScale <= Cos2(k) * mag2
            /\ (k = 90 \/ dot * dot * CosScale > Cos2(k + 1) * mag2)
    ELSE CHOOSE k \in 90..180 :
            /\ dot * dot * CosScale >= Cos2(k) * mag2
            /\ (k = 180 \/ dot * dot * CosScale < Cos2(k + 1) * mag2)

\* the second vector taken from pointA in place of the vertex
calculateAngleFromA(pointA, pointB, pointC) ==
    LET vectorBA == [x |-> pointA.x - pointB.x, y |-> pointA.y - pointB.y]
        vectorBC == [x |-> pointC.x - pointA.x, y |-> pointC.y - pointA.y]
        dotProduct == vectorBA.x * vectorBC.x + vectorBA.y * vectorBC.y
        magnitudeBA2 == vectorBA.x * vectorBA.x + vectorBA.y * vectorBA.y
        magnitudeBC2 == vectorBC.x * vectorBC.x + vectorBC.y * vectorBC.y
    IN  IF magnitudeBA2 = 0 \/ magnitudeBC2 = 0
        THEN 0
        ELSE AcosDegrees(dotProduct, magnitudeBA2 * magnitudeBC2)

\* the angle without the test for a zero magnitude
calculateAngleNoGuard(pointA, pointB, pointC) ==
    LET vectorBA == [x |-> pointA.x - pointB.x, y |-> pointA.y - pointB.y]
        vectorBC == [x |-> pointC.x - pointB.x, y |-> pointC.y - pointB.y]
        dotProduct == vectorBA.x * vectorBC.x + vectorBA.y * vectorBC.y
        magnitudeBA2 == vectorBA.x * vectorBA.x + vectorBA.y * vectorBA.y
        magnitudeBC2 == vectorBC.x * vectorBC.x + vectorBC.y * vectorBC.y
    IN  AcosDegrees(dotProduct, magnitudeBA2 * magnitudeBC2)

calculateAngle(pointA, pointB, pointC) ==
    LET vectorBA == [x |-> pointA.x - pointB.x, y |-> pointA.y - pointB.y]
        vectorBC == [x |-> pointC.x - pointB.x, y |-> pointC.y - pointB.y]
        dotProduct == vectorBA.x * vectorBC.x + vectorBA.y * vectorBC.y
        magnitudeBA2 == vectorBA.x * vectorBA.x + vectorBA.y * vectorBA.y
        magnitudeBC2 == vectorBC.x * vectorBC.x + vectorBC.y * vectorBC.y
    IN  IF magnitudeBA2 = 0 \/ magnitudeBC2 = 0
        THEN 0
        ELSE AcosDegrees(dotProduct, magnitudeBA2 * magnitudeBC2)

(***************************************************************************)
(* Landmark frames.  A frame is [isNull, length, at]: null, or an array of *)
(* `length` entries; an entry is a landmark [def |-> TRUE, x, y] or the    *)
(* undefined value [def |-> FALSE, ...] (a hole of a malformed array).     *)
(***************************************************************************)
Pt(px, py) == [def |-> TRUE, x |-> px, y |-> py]
Undefined == [def |-> FALSE, x |-> 0, y |-> 0]

\* the result of a call that returns coordinates or throws a TypeError
Coord(px, py) == [thrown |-> FALSE, x |-> px, y |-> py]
Thrown == [thrown |-> TRUE, x |-> 0, y |-> 0]

getLandmarkCoordinates(landmarks, landmarkIndex) ==
    IF landmarks.isNull \/ landmarkIndex >= landmarks.length
    THEN Coord(0, 0)
    ELSE LET landmark == IF landmarkIndex \in DOMAIN landmarks.at
                         THEN landmarks.at[landmarkIndex]
                         ELSE Undefined
         IN  IF landmark.def THEN Coord(landmark.x, landmark.y) ELSE Thrown

\* some landmarks[i].x of the listed reads throws
Throws(landmarks, idxs) ==
    \E i \in idxs : getLandmarkCoordinates(landmarks, i).thrown

AngleOf(landmarks, a, b, c) ==
    calculateAngle(getLandmarkCoordinates(landmarks, a),
                   getLandmarkCoordinates(landmarks, b),
                   getLandmarkCoordinates(landmarks, c))

ZeroAngles ==
    [elbow_angle_left |-> 0, elbow_angle_right |-> 0,
     shoulder_hip_ankle_angle_left |-> 0, shoulder_hip_ankle_angle_right |-> 0]

\* The try block of verifyPosture: its statements run in order, a throw ends
\* it and keeps the angles assigned so far.
VerifyPostureBody(landmarks, exerciseType) ==
    IF exerciseType = "pushup" THEN
        IF Throws(landmarks, {11, 13, 15})
        THEN [thrown |-> TRUE, angles |-> ZeroAngles]
        ELSE LET a1 == [ZeroAngles EXCEPT
                          !.elbow_angle_left = AngleOf(landmarks, 11, 13, 15)]
             IN  IF Throws(landmarks, {12, 14, 16})
                 THEN [thrown |-> TRUE, angles |-> a1]
                 ELSE [thrown |-> FALSE, angles |->
                        [a1 EXCEPT !.elbow_angle_right = AngleOf(landmarks, 12, 14, 16)]]
    ELSE IF exerciseType = "handstand" THEN
        IF Throws(landmarks, {11, 23, 27})
        THEN [thrown |-> TRUE, angles |-> ZeroAngles]
        ELSE LET a1 == [ZeroAngles EXCEPT
                          !.shoulder_hip_ankle_angle_left = AngleOf(landmarks, 11, 23, 27)]
             IN  IF Throws(landmarks, {12, 24, 28})
                 THEN [thrown |-> TRUE, angles |-> a1]
                 ELSE LET a2 == [a1 EXCEPT
                          !.shoulder_hip_ankle_angle_right = AngleOf(landmarks, 12, 24, 28)]
                 IN  IF Throws(landmarks, {13, 15})
                     THEN [thrown |-> TRUE, angles |-> a2]
                     ELSE LET a3 == [a2 EXCEPT
                              !.elbow_angle_left = AngleOf(landmarks, 11, 13, 15)]
                     IN  IF Throws(landmarks, {14, 16})
                         THEN [thrown |-> TRUE, angles |-> a3]
                         ELSE [thrown |-> FALSE, angles |->
                                [a3 EXCEPT
                                  !.elbow_angle_right = AngleOf(landmarks, 12, 14, 16)]]
    ELSE [thrown |-> FALSE, angles |-> ZeroAngles]

\* verifyPosture without its catch clause: a throw of the try block reaches
\* the caller
verifyPostureNoCatch(landmarks, exerciseType) ==
    IF landmarks.isNull \/ landmarks.length = 0
    THEN [raised |-> FALSE, angles |-> ZeroAngles]
    ELSE [raised |-> VerifyPostureBody(landmarks, exerciseType).thrown,
          angles |-> VerifyPostureBody(landmarks, exerciseType).angles]

\* A call completes normally with a value, or abruptly (raised): the catch
\* clause of verifyPosture turns a throw of its try block into a normal return.
verifyPosture(landmarks, exerciseType) ==
    IF landmarks.isNull \/ landmarks.length = 0
    THEN [raised |-> FALSE, angles |-> ZeroAngles]
    ELSE [raised |-> FALSE, angles |-> VerifyPostureBody(landmarks, exerciseType).angles]

(***************************************************************************)
(* utils.js: reference ranges and the correctness check.  An angle name is *)
(* the sequence of its words, so that String.includes is a search for a    *)
(* contiguous run of words.                                                *)
(***************************************************************************)
AngleNames == <<"elbow_angle_left", "elbow_angle_right",
                "shoulder_hip_ankle_angle_left", "shoulder_hip_ankle_angle_right">>

Words(angleName) ==
    CASE angleName = "elbow_angle_left" -> <<"elbow", "angle", "left">>
      [] angleName = "elbow_angle_right" -> <<"elbow", "angle", "right">>
      [] angleName = "shoulder_hip_ankle_angle_left" ->
            <<"shoulder", "hip", "ankle", "angle", "left">>
      [] angleName = "shoulder_hip_ankle_angle_right" ->
            <<"shoulder", "hip", "ankle", "angle", "right">>

\* a looser match than String.includes: some word of part occurs in the name
IncludesAnyWord(angleName, part) ==
    \E i \in 1..Len(Words(angleName)), j \in 1..Len(part) :
        Words(angleName)[i] = part[j]

\* angleName.includes(part)
Includes(angleName, part) ==
    LET w == Words(angleName)
    IN  \E i \in 1..(Len(w) - Len(part) + 1) :
            SubSeq(w, i, i + Len(part) - 1) = part

loadReferenceData ==
    [pushup |-> [elbow_angle |-> <<90, 120>>],
     handstand |-> [shoulder_hip_ankle_angle |-> <<170, 180>>,
                    elbow_angle |-> <<160, 180>>]]

\* exclusive bounds in place of the inclusive ones
InRangeStrict(angleValue, range) == angleValue > range[1] /\ angleValue < range[2]

\* angleValue >= minAngle && angleValue <= maxAngle
InRange(angleValue, range) == angleValue >= range[1] /\ angleValue <= range[2]

\* Object.entries(angles) is walked in order; every name takes the first
\* branch whose test holds, or none
checkPostureCorrectness(angles, exerciseType) ==
    LET reference == loadReferenceData
    IN  IF exerciseType \notin DOMAIN reference THEN <<>>
        ELSE LET exerciseRef == reference[exerciseType]
                 elbow(n) == /\ Includes(n, <<"elbow", "angle">>)
                             /\ "elbow_angle" \in DOMAIN exerciseRef
                 sha(n) == /\ ~elbow(n)
                           /\ Includes(n, <<"shoulder", "hip", "ankle">>)
                           /\ "shoulder_hip_ankle_angle" \in DOMAIN exerciseRef
                 named == {n \in DOMAIN angles : elbow(n) \/ sha(n)}
             IN  [n \in named |->
                    IF elbow(n)
                    THEN InRange(angles[n], exerciseRef.elbow_angle)
                    ELSE InRange(angles[n], exerciseRef.shoulder_hip_ankle_angle)]

(***************************************************************************)
(* The frames the landmark producer delivers: a catalogue of poses, of the *)
(* absent and the empty frame and of malformed arrays.  Landmark indices:  *)
(* 0 nose, 11/12 shoulders, 13/14 elbows, 15/16 wrists, 23/24 hips, 27/28  *)
(* ankles (left/right); every other landmark sits at the image centre.     *)
(***************************************************************************)
LandmarkArray(p) ==
    [isNull |-> FALSE, length |-> 33,
     at |-> [i \in 0..32 |-> IF i \in DOMAIN p THEN p[i] ELSE Pt(10, 10)]]

\* the array cut to its first n entries
Truncated(landmarks, n) ==
    [isNull |-> FALSE, length |-> n, at |-> [i \in 0..(n - 1) |-> landmarks.at[i]]]

\* the array with entry i undefined
WithHole(landmarks, i) == [landmarks EXCEPT !.at[i] = Undefined]

\* a push-up seen from the side: both arms given by their wrists
PushupPose(nose, leftWrist, rightWrist, hip) ==
    LandmarkArray(0 :> nose @@ 11 :> Pt(6, 10) @@ 12 :> Pt(6, 10)
                  @@ 13 :> Pt(6, 14) @@ 14 :> Pt(6, 14)
                  @@ 15 :> leftWrist @@ 16 :> rightWrist
                  @@ 23 :> hip @@ 24 :> hip
                  @@ 27 :> Pt(18, 11) @@ 28 :> Pt(18, 11))

\* a body line seen from the front, wrists above shoulders above hips
HandstandPose(leftWrist, rightWrist, leftElbow, rightElbow, leftAnkle, rightAnkle) ==
    LandmarkArray(0 :> Pt(10, 9) @@ 11 :> Pt(9, 8) @@ 12 :> Pt(11, 8)
                  @@ 13 :> leftElbow @@ 14 :> rightElbow
                  @@ 15 :> leftWrist @@ 16 :> rightWrist
                  @@ 23 :> Pt(9, 13) @@ 24 :> Pt(11, 13)
                  @@ 27 :> leftAnkle @@ 28 :> rightAnkle)

PuGood == PushupPose(Pt(4, 10), Pt(13, 16), Pt(13, 16), Pt(12, 10))
HsGood == HandstandPose(Pt(9, 2), Pt(11, 2), Pt(9, 5), Pt(11, 5), Pt(9, 18), Pt(11, 18))

Frames ==
    [null      |-> [isNull |-> TRUE, length |-> 0, at |-> <<>>],
     empty     |-> [isNull |-> FALSE, length |-> 0, at |-> <<>>],
     pu_good   |-> PuGood,
     pu_wide   |-> PushupPose(Pt(4, 10), Pt(9, 16), Pt(9, 16), Pt(12, 10)),
     pu_bent   |-> PushupPose(Pt(4, 10), Pt(13, 10), Pt(13, 16), Pt(12, 10)),
     pu_low    |-> PushupPose(Pt(4, 10), Pt(13, 10), Pt(13, 10), Pt(12, 10)),
     pu_ext    |-> PushupPose(Pt(4, 10), Pt(6, 18), Pt(6, 18), Pt(12, 10)),
     pu_sag    |-> PushupPose(Pt(4, 10), Pt(13, 16), Pt(13, 16), Pt(12, 13)),
     pu_uneven |-> PushupPose(Pt(4, 10), Pt(13, 16), Pt(9, 16), Pt(12, 10)),
     pu_headup |-> PushupPose(Pt(4, 6), Pt(13, 16), Pt(13, 16), Pt(12, 10)),
     pu_fold   |-> PushupPose(Pt(4, 10), Pt(6, 14), Pt(6, 14), Pt(12, 10)),
     hs_good   |-> HsGood,
     hs_bent   |-> HandstandPose(Pt(9, 2), Pt(11, 2), Pt(11, 5), Pt(11, 5),
                                 Pt(9, 18), Pt(11, 18)),
     hs_pike   |-> HandstandPose(Pt(9, 2), Pt(11, 2), Pt(9, 5), Pt(11, 5),
                                 Pt(13, 16), Pt(11, 18)),
     hs_off    |-> HandstandPose(Pt(11, 2), Pt(13, 2), Pt(10, 5), Pt(12, 5),
                                 Pt(9, 18), Pt(11, 18)),
     hs_tilt   |-> HandstandPose(Pt(9, 2), Pt(11, 2), Pt(9, 5), Pt(11, 5),
                                 Pt(9, 18), Pt(12, 18)),
     hs_lean   |-> HandstandPose(Pt(10, 2), Pt(12, 2), Pt(9, 5), Pt(11, 5),
                                 Pt(9, 18), Pt(11, 18)),
     hs_far    |-> HandstandPose(Pt(12, 2), Pt(14, 2), Pt(10, 5), Pt(12, 5),
                                 Pt(9, 18), Pt(11, 18)),
     short     |-> Truncated(PuGood, 12),
     hole14    |-> WithHole(PuGood, 14),
     hole23    |-> WithHole(PuGood, 23),
     hole11    |-> WithHole(HsGood, 11)]

FrameIds == DOMAIN Frames

ExerciseTypes == {"pushup", "handstand", "squat"}

(***************************************************************************)
(* pose-coach.js: the PoseCoach object.  speakCallback is TRUE when a      *)
(* callback is installed (the app's speechCallback, which starts the       *)
(* asynchronous speech request and returns) and FALSE when it is null.     *)
(***************************************************************************)
maxHistoryFrames == 10
\* consistencyThreshold = 0.7, in tenths
consistencyThresholdTenths == 7
speechCooldown == 4000
maxRecentFeedback == 3
\* 0.1, 0.15, 0.1 and 0.05 of the image, in twentieths
StraightThreshold == 2
HeadThreshold == 3
BalanceThreshold == 2
ShoulderThreshold == 1

InitExerciseState ==
    [pushup |-> [position |-> "up", repCount |-> 0, lastRepTime |-> 0],
     handstand |-> [isInHandstand |-> FALSE, entryTime |-> 0, repCount |-> 0]]

\* constructor(speakCallback)
NewPoseCoach(speakCallback) ==
    [frameHistory |-> <<>>,
     lastFeedbackTime |-> 0,
     speakCallback |-> speakCallback,
     lastSpokenFeedback |-> [type |-> "", time |-> 0],
     recentFeedbackTypes |-> <<>>,
     exerciseState |-> InitExerciseState]

\* a reset that clears the history and the exercise state machines but keeps
\* the speech bookkeeping
resetKeepsSpeech(c) ==
    [c EXCEPT !.frameHistory = <<>>,
              !.lastFeedbackTime = 0,
              !.exerciseState = InitExerciseState]

\* reset()
reset(c) ==
    [c EXCEPT !.frameHistory = <<>>,
              !.lastFeedbackTime = 0,
              !.lastSpokenFeedback = [type |-> "", time |-> 0],
              !.recentFeedbackTypes = <<>>,
              !.exerciseState = InitExerciseState]

\* the {placeholders} of the variations of a feedback type: {reps} in those
\* of pushup_rep_completed, none in any other
Placeholders(feedbackType) ==
    IF feedbackType = "pushup_rep_completed" THEN {"reps"} ELSE {}

\* getFeedback(feedbackType, context): one of the type's variations (which
\* one is random and left out), its placeholders filled from context.  The
\* message is [type, reps, holdTime]: the rep count and the hold time (in
\* tenths of a second) it tells, 0 and -1 when it tells none
getFeedback(feedbackType, context) ==
    [type |-> feedbackType,
     reps |-> IF "reps" \in Placeholders(feedbackType) /\ "reps" \in DOMAIN context
              THEN context.reps ELSE 0,
     holdTime |-> IF /\ "holdTime" \in Placeholders(feedbackType)
                     /\ "holdTime" \in DOMAIN context
                  THEN context.holdTime ELSE -1]

InSeq(x, seq) == \E i \in 1..Len(seq) : seq[i] = x

\* a speak whose priority flag lifts neither the cooldown nor the
\* anti-repetition check
speakWithoutPriority(m, feedbackType, context, priority, t) ==
    IF ~m.coach.speakCallback THEN m
    ELSE IF t - m.coach.lastSpokenFeedback.time < speechCooldown THEN m
    ELSE IF InSeq(feedbackType, m.coach.recentFeedbackTypes) THEN m
    ELSE [coach |-> [m.coach EXCEPT
                !.lastSpokenFeedback = [type |-> feedbackType, time |-> t],
                !.recentFeedbackTypes =
                    IF Len(@) >= maxRecentFeedback
                    THEN Append(Tail(@), feedbackType)
                    ELSE Append(@, feedbackType)],
          said |-> Append(m.said, getFeedback(feedbackType, context))]

\* a speak that never drops a type from the list of recent ones
speakKeepsAllTypes(m, feedbackType, context, priority, t) ==
    IF ~m.coach.speakCallback THEN m
    ELSE IF ~priority /\ t - m.coach.lastSpokenFeedback.time < speechCooldown THEN m
    ELSE IF ~priority /\ InSeq(feedbackType, m.coach.recentFeedbackTypes) THEN m
    ELSE [coach |-> [m.coach EXCEPT
                !.lastSpokenFeedback = [type |-> feedbackType, time |-> t],
                !.recentFeedbackTypes = Append(@, feedbackType)],
          said |-> Append(m.said, getFeedback(feedbackType, context))]

\* speak(feedbackType, context, priority) at time t; m = [coach, said], said
\* being the messages handed to the callback during the current call
speak(m, feedbackType, context, priority, t) ==
    LET c == m.coach
        timeSinceLastSpoken == t - c.lastSpokenFeedback.time
    IN  IF ~c.speakCallback THEN m
        ELSE IF ~priority /\ timeSinceLastSpoken < speechCooldown THEN m
        ELSE IF ~priority /\ InSeq(feedbackType, c.recentFeedbackTypes) THEN m
        ELSE LET pushed == Append(c.recentFeedbackTypes, feedbackType)
             IN  [coach |-> [c EXCEPT
                        !.lastSpokenFeedback = [type |-> feedbackType, time |-> t],
                        !.recentFeedbackTypes =
                            IF Len(pushed) > maxRecentFeedback THEN Tail(pushed)
                            ELSE pushed],
                  said |-> Append(m.said, getFeedback(feedbackType, context))]

(***************************************************************************)
(* The geometric sub-checks.  Each is a try block whose catch clause       *)
(* returns the passing answer.                                             *)
(***************************************************************************)
Y(landmarks, i) == getLandmarkCoordinates(landmarks, i).y
X(landmarks, i) == getLandmarkCoordinates(landmarks, i).x

\* the body line measured along x in place of y
checkPushupBodyAlignmentAlongX(landmarks) ==
    IF Throws(landmarks, {11, 23, 27}) THEN [raised |-> FALSE, straight |-> TRUE]
    ELSE [raised |-> FALSE,
          straight |-> /\ Abs(X(landmarks, 11) - X(landmarks, 23)) < StraightThreshold
                       /\ Abs(X(landmarks, 23) - X(landmarks, 27)) < StraightThreshold]

checkPushupBodyAlignment(landmarks) ==
    IF Throws(landmarks, {11, 23, 27}) THEN [raised |-> FALSE, straight |-> TRUE]
    ELSE [raised |-> FALSE,
          straight |-> /\ Abs(Y(landmarks, 11) - Y(landmarks, 23)) < StraightThreshold
                       /\ Abs(Y(landmarks, 23) - Y(landmarks, 27)) < StraightThreshold]

checkHeadPosition(landmarks) ==
    IF Throws(landmarks, {0, 11}) THEN [raised |-> FALSE, neutral |-> TRUE]
    ELSE [raised |-> FALSE,
          neutral |-> Abs(Y(landmarks, 0) - Y(landmarks, 11)) < HeadThreshold]

\* a balance check that takes a distance of exactly 0.1 for centred
checkHandstandBalanceAtMost(landmarks) ==
    IF Throws(landmarks, {15, 16, 11, 12}) THEN [raised |-> FALSE, centered |-> TRUE]
    ELSE [raised |-> FALSE,
          centered |-> Abs((X(landmarks, 15) + X(landmarks, 16))
                           - (X(landmarks, 11) + X(landmarks, 12)))
                       <= 2 * BalanceThreshold]

\* the two centres are halves of sums; both sides are doubled here
checkHandstandBalance(landmarks) ==
    IF Throws(landmarks, {15, 16, 11, 12}) THEN [raised |-> FALSE, centered |-> TRUE]
    ELSE [raised |-> FALSE,
          centered |-> Abs((X(landmarks, 15) + X(landmarks, 16))
                           - (X(landmarks, 11) + X(landmarks, 12)))
                       < 2 * BalanceThreshold]

checkShoulderPosition(landmarks) ==
    IF Throws(landmarks, {11, 12, 15, 16}) THEN [raised |-> FALSE, stable |-> TRUE]
    ELSE [raised |-> FALSE,
          stable |-> /\ Abs(X(landmarks, 11) - X(landmarks, 15)) < ShoulderThreshold
                     /\ Abs(X(landmarks, 12) - X(landmarks, 16)) < ShoulderThreshold]

checkHandstandInversion(landmarks) ==
    IF Throws(landmarks, {11, 15, 23}) THEN [raised |-> FALSE, inverted |-> FALSE]
    ELSE [raised |-> FALSE,
          inverted |-> /\ Y(landmarks, 15) < Y(landmarks, 11)
                       /\ Y(landmarks, 11) < Y(landmarks, 23)]

\* a pool for the level "excellent" alone, no text for any other level
getMotivationalMessageExcellentOnly(level, rnd) ==
    IF level = "excellent"
    THEN <<"Outstanding form! You're a natural!",
           "Perfect execution! Keep it up!",
           "Flawless technique! You're crushing it!",
           "Incredible control! Well done!">>[rnd]
    ELSE ""

\* getMotivationalMessage(level): entry rnd of the level's pool of four
getMotivationalMessage(level, rnd) ==
    LET messages ==
          [excellent |-> <<"Outstanding form! You're a natural!",
                           "Perfect execution! Keep it up!",
                           "Flawless technique! You're crushing it!",
                           "Incredible control! Well done!">>,
           good |-> <<"Great job! You're getting stronger!",
                      "Nice work! Keep pushing!",
                      "Solid form! You're improving!",
                      "Well done! Stay consistent!">>,
           improving |-> <<"You're making progress! Keep going!",
                           "Every rep counts! Stay focused!",
                           "You're on the right track!",
                           "Keep practicing! You've got this!">>]
        levelMessages == IF level \in DOMAIN messages THEN messages[level]
                         ELSE messages.improving
    IN  levelMessages[rnd]

\* a feedback object; the messages are written without the pictograph that
\* leads them in the source
Feedback(primaryFeedback, tips, priority, motivational) ==
    [primaryFeedback |-> primaryFeedback, tips |-> tips,
     priority |-> priority, motivational |-> motivational]

(***************************************************************************)
(* analyzePushup(landmarks, angles) at time t, rnd the random draw of the  *)
(* motivational message.  The result is [raised, coach, said, feedback];   *)
(* the average of the elbow angles is compared doubled.                    *)
(***************************************************************************)
\* a rep counted on every extended frame, whatever the position
RepCompletedAnyPosition(avgElbow2, position) == avgElbow2 > 2 * 160

\* the rep is completed: avgElbow > 160 && position === 'down'
RepCompleted(avgElbow2, position) == avgElbow2 > 2 * 160 /\ position = "down"

\* a descent that begins at a mean of 90 already
RepStartedAtNinety(avgElbow2, position) == avgElbow2 <= 2 * 90 /\ position = "up"

\* the descent begins: avgElbow < 90 && position === 'up'
RepStarted(avgElbow2, position) == avgElbow2 < 2 * 90 /\ position = "up"

\* the bent-arm test on the right elbow alone
ArmsTooBentRightOnly(leftElbow, rightElbow) == rightElbow < 70

\* the bent-arm rule giving way to the extended-arm rule
ArmsTooBentUnlessStraight(leftElbow, rightElbow) ==
    (leftElbow < 70 \/ rightElbow < 70) /\ ~(leftElbow > 150 \/ rightElbow > 150)

\* leftElbow < 70 || rightElbow < 70
ArmsTooBent(leftElbow, rightElbow) == leftElbow < 70 \/ rightElbow < 70

\* leftElbow > 150 || rightElbow > 150
ArmsTooStraight(leftElbow, rightElbow) == leftElbow > 150 \/ rightElbow > 150

\* rep counting and voice feedback (the first part of analyzePushup)
PushupTrack(m, avgElbow2, t) ==
    LET currentState == m.coach.exerciseState.pushup
        reps == currentState.repCount + 1
        up == [m EXCEPT !.coach.exerciseState.pushup =
                 [position |-> "up", repCount |-> reps, lastRepTime |-> t]]
    IN  IF RepCompleted(avgElbow2, currentState.position)
        THEN IF reps = 5 THEN speak(up, "milestone_5_reps", <<>>, TRUE, t)
             ELSE IF reps = 10 THEN speak(up, "milestone_10_reps", <<>>, TRUE, t)
             ELSE IF reps = 15 THEN speak(up, "milestone_15_reps", <<>>, TRUE, t)
             ELSE IF reps % 5 = 0 /\ reps > 15
                  THEN speak(up, "pushup_rep_completed", [reps |-> reps], TRUE, t)
             ELSE speak(up, "pushup_good_form", <<>>, FALSE, t)
        ELSE IF RepStarted(avgElbow2, currentState.position)
        THEN speak([m EXCEPT !.coach.exerciseState.pushup.position = "down"],
                   "pushup_good_depth", <<>>, FALSE, t)
        ELSE m

\* the ladder of analyzePushup, from the machine the rep tracking left:
\* [raised, m, feedback]
PushupLadder(tracked, bodyAlignment, leftElbow, rightElbow, t, rnd) ==
    IF ArmsTooBent(leftElbow, rightElbow)
    THEN [raised |-> FALSE,
          m |-> speak(tracked, "pushup_need_extension", <<>>, FALSE, t),
          feedback |-> Feedback("Arms too bent - push higher!",
                <<"Extend your arms more to complete the push-up">>,
                "critical", "")]
    ELSE IF ArmsTooStraight(leftElbow, rightElbow)
    THEN [raised |-> FALSE,
          m |-> speak(tracked, "pushup_need_depth", <<>>, FALSE, t),
          feedback |-> Feedback("Lower down more for full range",
                <<"Bend your elbows to 90-110 degrees for proper form">>,
                "critical", "")]
    ELSE IF bodyAlignment.raised
    THEN [raised |-> TRUE, m |-> tracked,
          feedback |-> Feedback("", <<>>, "minor", "")]
    ELSE IF ~bodyAlignment.straight
    THEN [raised |-> FALSE,
          m |-> speak(tracked, "pushup_body_alignment", <<>>, FALSE, t),
          feedback |-> Feedback("Keep your body straight",
                <<"Engage your core to maintain a plank position">>,
                "major", "")]
    ELSE IF Abs(leftElbow - rightElbow) > 15
    THEN [raised |-> FALSE, m |-> tracked,
          feedback |-> Feedback("Balance both arms equally",
                <<"Lower both arms at the same rate">>, "major", "")]
    ELSE [raised |-> FALSE,
          m |-> IF t - tracked.coach.exerciseState.pushup.lastRepTime > 3000
                THEN speak(tracked, "pushup_good_form", <<>>, FALSE, t)
                ELSE tracked,
          feedback |-> Feedback("Excellent form!",
                <<"Keep up this great technique">>, "success",
                getMotivationalMessage("good", rnd))]

\* the tips added after the ladder, and the value analyzePushup returns
PushupTips(ladder, headPosition, leftElbow, rightElbow) ==
    LET perfect == /\ leftElbow > 0 /\ rightElbow > 0
                   /\ leftElbow >= 90 /\ leftElbow <= 120
                   /\ rightElbow >= 90 /\ rightElbow <= 120
        tips1 == IF perfect THEN <<"Perfect elbow angle range!">> ELSE <<>>
        tips2 == IF ~headPosition.neutral
                 THEN <<"Keep your head in neutral position">> ELSE <<>>
    IN  [raised |-> ladder.raised \/ headPosition.raised,
         coach |-> ladder.m.coach,
         said |-> ladder.m.said,
         feedback |-> [ladder.feedback EXCEPT !.tips = @ \o tips1 \o tips2]]

analyzePushup(m, landmarks, angles, t, rnd) ==
    PushupTips(
        PushupLadder(
            PushupTrack(m, angles.elbow_angle_left + angles.elbow_angle_right, t),
            checkPushupBodyAlignment(landmarks),
            angles.elbow_angle_left, angles.elbow_angle_right, t, rnd),
        checkHeadPosition(landmarks),
        angles.elbow_angle_left, angles.elbow_angle_right)

(***************************************************************************)
(* analyzeHandstand(landmarks, angles).  The hold time handed to speak is  *)
(* holdTime.toFixed(1): seconds rounded to a tenth, kept here in tenths.   *)
(***************************************************************************)
\* a machine that enters the handstand and never leaves it
HandstandTrackNoExit(m, inversion, t) ==
    IF inversion.inverted /\ ~m.coach.exerciseState.handstand.isInHandstand
    THEN speak([m EXCEPT !.coach.exerciseState.handstand =
                  [isInHandstand |-> TRUE, entryTime |-> t,
                   repCount |-> @.repCount + 1]],
               "handstand_entry", <<>>, TRUE, t)
    ELSE m

\* handstand entry/exit detection with voice feedback
HandstandTrack(m, inversion, t) ==
    LET isInverted == inversion.inverted
        currentState == m.coach.exerciseState.handstand
    IN  IF inversion.raised THEN m
        ELSE IF isInverted /\ ~currentState.isInHandstand
        THEN speak([m EXCEPT !.coach.exerciseState.handstand =
                      [isInHandstand |-> TRUE, entryTime |-> t,
                       repCount |-> currentState.repCount + 1]],
                   "handstand_entry", <<>>, TRUE, t)
        ELSE IF ~isInverted /\ currentState.isInHandstand
        THEN speak([m EXCEPT !.coach.exerciseState.handstand.isInHandstand = FALSE],
                   "handstand_exit",
                   [holdTime |-> ((t - currentState.entryTime) + 50) \div 100],
                   TRUE, t)
        ELSE m

\* the ladder of analyzeHandstand: [raised, m, feedback]
HandstandLadder(tracked, inversion, balance, angles, t, rnd) ==
    IF inversion.raised
    THEN [raised |-> TRUE, m |-> tracked,
          feedback |-> Feedback("", <<>>, "minor", "")]
    ELSE IF angles.elbow_angle_left < 160 \/ angles.elbow_angle_right < 160
    THEN [raised |-> FALSE,
          m |-> speak(tracked, "handstand_arm_extension", <<>>, FALSE, t),
          feedback |-> Feedback("Extend your arms fully",
                <<"Lock your elbows for better stability">>, "critical", "")]
    ELSE IF \/ angles.shoulder_hip_ankle_angle_left < 160
            \/ angles.shoulder_hip_ankle_angle_right < 160
    THEN [raised |-> FALSE,
          m |-> speak(tracked, "handstand_body_alignment", <<>>, FALSE, t),
          feedback |-> Feedback("Straighten your body line",
                <<"Engage your core and point your toes up">>, "critical", "")]
    ELSE IF balance.raised
    THEN [raised |-> TRUE, m |-> tracked,
          feedback |-> Feedback("", <<>>, "minor", "")]
    ELSE IF ~balance.centered
    THEN [raised |-> FALSE, m |-> tracked,
          feedback |-> Feedback("Center your weight over hands",
                <<"Shift your body to find the balance point">>, "major", "")]
    ELSE IF Abs(angles.shoulder_hip_ankle_angle_left
                - angles.shoulder_hip_ankle_angle_right) > 10
    THEN [raised |-> FALSE,
          m |-> speak(tracked, "handstand_body_alignment", <<>>, FALSE, t),
          feedback |-> Feedback("Keep both sides aligned",
                <<"Engage your core evenly on both sides">>, "major", "")]
    ELSE [raised |-> FALSE,
          m |-> IF /\ tracked.coach.exerciseState.handstand.isInHandstand
                   /\ (t - tracked.coach.exerciseState.handstand.entryTime) > 2000
                THEN speak(tracked, "handstand_perfect_form", <<>>, FALSE, t)
                ELSE tracked,
          feedback |-> Feedback("Amazing handstand form!",
                <<"Hold this position as long as you can">>, "success",
                getMotivationalMessage("excellent", rnd))]

\* the tips added after the ladder, and the value analyzeHandstand returns
HandstandTips(ladder, shoulderPosition, angles) ==
    LET tips1 == IF /\ angles.shoulder_hip_ankle_angle_left > 170
                    /\ angles.shoulder_hip_ankle_angle_right > 170
                 THEN <<"Perfect body alignment!">> ELSE <<>>
        tips2 == IF ~shoulderPosition.stable
                 THEN <<"Keep your shoulders directly over your wrists">> ELSE <<>>
    IN  [raised |-> ladder.raised \/ shoulderPosition.raised,
         coach |-> ladder.m.coach,
         said |-> ladder.m.said,
         feedback |-> [ladder.feedback EXCEPT !.tips = @ \o tips1 \o tips2]]

\* a handstand analysis that judges the form of inverted frames only
analyzeHandstandWhenInverted(m, landmarks, angles, t, rnd) ==
    IF checkHandstandInversion(landmarks).inverted
    THEN HandstandTips(
            HandstandLadder(
                HandstandTrack(m, checkHandstandInversion(landmarks), t),
                checkHandstandInversion(landmarks),
                checkHandstandBalance(landmarks), angles, t, rnd),
            checkShoulderPosition(landmarks), angles)
    ELSE [raised |-> FALSE,
          coach |-> HandstandTrack(m, checkHandstandInversion(landmarks), t).coach,
          said |-> HandstandTrack(m, checkHandstandInversion(landmarks), t).said,
          feedback |-> Feedback("Kick up into your handstand", <<>>, "minor", "")]

analyzeHandstand(m, landmarks, angles, t, rnd) ==
    HandstandTips(
        HandstandLadder(
            HandstandTrack(m, checkHandstandInversion(landmarks), t),
            checkHandstandInversion(landmarks),
            checkHandstandBalance(landmarks), angles, t, rnd),
        checkShoulderPosition(landmarks), angles)

\* each frame fed to the machines of both exercises
generateFeedbackBothMachines(m, landmarks, angles, exerciseType, t, rnd) ==
    IF exerciseType = "pushup"
    THEN analyzePushup(HandstandTrack(m, checkHandstandInversion(landmarks), t),
                       landmarks, angles, t, rnd)
    ELSE IF exerciseType = "handstand"
    THEN analyzeHandstand(
            PushupTrack(m, angles.elbow_angle_left + angles.elbow_angle_right, t),
            landmarks, angles, t, rnd)
    ELSE [raised |-> FALSE, coach |-> m.coach, said |-> m.said,
          feedback |-> Feedback("Select an exercise type", <<>>, "minor", "")]

\* every type other than handstand analysed as a push-up
generateFeedbackPushupDefault(m, landmarks, angles, exerciseType, t, rnd) ==
    IF exerciseType = "handstand" THEN analyzeHandstand(m, landmarks, angles, t, rnd)
    ELSE analyzePushup(m, landmarks, angles, t, rnd)

generateFeedback(m, landmarks, angles, exerciseType, t, rnd) ==
    IF exerciseType = "pushup" THEN analyzePushup(m, landmarks, angles, t, rnd)
    ELSE IF exerciseType = "handstand" THEN analyzeHandstand(m, landmarks, angles, t, rnd)
    ELSE [raised |-> FALSE, coach |-> m.coach, said |-> m.said,
          feedback |-> Feedback("Select an exercise type", <<>>, "minor", "")]

(***************************************************************************)
(* getConsistentFeedback() and getSessionStats() on a frame history        *)
(***************************************************************************)
\* the whole history sampled in place of its last five frames
RecentFramesAll(frameHistory) == frameHistory

\* frameHistory.slice(-5)
RecentFrames(frameHistory) ==
    SubSeq(frameHistory,
           IF Len(frameHistory) > 5 THEN Len(frameHistory) - 4 ELSE 1,
           Len(frameHistory))

\* feedbackCount[key]
FeedbackCount(recentFrames, key) ==
    Cardinality({i \in 1..Len(recentFrames) :
                    recentFrames[i].feedback.primaryFeedback = key})

\* the most frequent message taken whatever its share of the window
RECURSIVE MostFrequentAnyShare(_, _, _)
MostFrequentAnyShare(recentFrames, i, best) ==
    IF i > Len(recentFrames) THEN best
    ELSE IF /\ \A j \in 1..(i - 1) :
                    recentFrames[j].feedback.primaryFeedback
                        # recentFrames[i].feedback.primaryFeedback
            /\ FeedbackCount(recentFrames, recentFrames[i].feedback.primaryFeedback)
                    > best.maxCount
         THEN MostFrequentAnyShare(recentFrames, i + 1,
                [maxCount |-> FeedbackCount(recentFrames,
                                recentFrames[i].feedback.primaryFeedback),
                 mostFrequent |-> recentFrames[i].feedback.primaryFeedback,
                 priority |-> recentFrames[i].feedback.priority,
                 tips |-> recentFrames[i].feedback.tips,
                 motivational |-> recentFrames[i].feedback.motivational])
         ELSE MostFrequentAnyShare(recentFrames, i + 1, best)

\* a consensus already at half of the window
RECURSIVE MostFrequentAtHalf(_, _, _)
MostFrequentAtHalf(recentFrames, i, best) ==
    IF i > Len(recentFrames) THEN best
    ELSE IF /\ \A j \in 1..(i - 1) :
                    recentFrames[j].feedback.primaryFeedback
                        # recentFrames[i].feedback.primaryFeedback
            /\ FeedbackCount(recentFrames, recentFrames[i].feedback.primaryFeedback)
                    > best.maxCount
            /\ 2 * FeedbackCount(recentFrames,
                                 recentFrames[i].feedback.primaryFeedback)
                    >= Len(recentFrames)
         THEN MostFrequentAtHalf(recentFrames, i + 1,
                [maxCount |-> FeedbackCount(recentFrames,
                                recentFrames[i].feedback.primaryFeedback),
                 mostFrequent |-> recentFrames[i].feedback.primaryFeedback,
                 priority |-> recentFrames[i].feedback.priority,
                 tips |-> recentFrames[i].feedback.tips,
                 motivational |-> recentFrames[i].feedback.motivational])
         ELSE MostFrequentAtHalf(recentFrames, i + 1, best)

\* The loop over Object.entries(feedbackCount): the keys come in the order of
\* their first frame; frame i stands for its key when it is that first frame,
\* and is then the frame that recentFrames.find returns.
RECURSIVE MostFrequentFrom(_, _, _)
MostFrequentFrom(recentFrames, i, best) ==
    IF i > Len(recentFrames) THEN best
    ELSE LET key == recentFrames[i].feedback.primaryFeedback
             isFirst == \A j \in 1..(i - 1) :
                            recentFrames[j].feedback.primaryFeedback # key
             count == FeedbackCount(recentFrames, key)
         IN  IF /\ isFirst
                /\ count > best.maxCount
                /\ 10 * count >= consistencyThresholdTenths * Len(recentFrames)
             THEN MostFrequentFrom(recentFrames, i + 1,
                    [maxCount |-> count,
                     mostFrequent |-> key,
                     priority |-> recentFrames[i].feedback.priority,
                     tips |-> recentFrames[i].feedback.tips,
                     motivational |-> recentFrames[i].feedback.motivational])
             ELSE MostFrequentFrom(recentFrames, i + 1, best)

\* the consensus message answered with the latest frame's other fields
ConsistentWithLatestDetails(found, latest) ==
    IF found.mostFrequent = ""
    THEN Feedback(latest.primaryFeedback, latest.tips, latest.priority,
                  latest.motivational)
    ELSE Feedback(found.mostFrequent, latest.tips, latest.priority,
                  latest.motivational)

\* no consensus answered with the message of an empty history
ConsistentOrPlaceholder(found, latest) ==
    IF found.mostFrequent = ""
    THEN Feedback("Get ready to start!", <<>>, "minor", "")
    ELSE Feedback(found.mostFrequent, found.tips, found.priority,
                  found.motivational)

\* what getConsistentFeedback returns, given the loop's result and the
\* feedback of the latest frame
ConsistentOrLatest(found, latest) ==
    IF found.mostFrequent = ""
    THEN Feedback(latest.primaryFeedback, latest.tips, latest.priority,
                  latest.motivational)
    ELSE Feedback(found.mostFrequent, found.tips, found.priority,
                  found.motivational)

getConsistentFeedback(frameHistory) ==
    IF Len(frameHistory) = 0
    THEN Feedback("Get ready to start!", <<>>, "minor", "")
    ELSE ConsistentOrLatest(
            MostFrequentFrom(RecentFrames(frameHistory), 1,
                [maxCount |-> 0, mostFrequent |-> "", priority |-> "minor",
                 tips |-> <<>>, motivational |-> ""]),
            frameHistory[Len(frameHistory)].feedback)

\* the quotient cut off in place of rounded
RoundDown(num, den) == num \div den

\* Math.round of a non-negative quotient
Round(num, den) == (2 * num + den) \div (2 * den)

getSessionStats(frameHistory) ==
    IF Len(frameHistory) = 0
    THEN [totalFrames |-> 0, goodFormFrames |-> 0, goodFormPercentage |-> 0]
    ELSE LET totalFrames == Len(frameHistory)
             goodFormFrames ==
                Cardinality({i \in 1..Len(frameHistory) :
                    \/ frameHistory[i].feedback.priority = "success"
                    \/ frameHistory[i].feedback.priority = "minor"})
         IN  [totalFrames |-> totalFrames,
              goodFormFrames |-> goodFormFrames,
              goodFormPercentage |-> Round(goodFormFrames * 100, totalFrames)]

\* a full buffer that turns the new entry away in place of its oldest one
PushFrameDropNewest(frameHistory, entry) ==
    IF Len(frameHistory) >= maxHistoryFrames THEN frameHistory
    ELSE Append(frameHistory, entry)

\* frameHistory.push(entry), then shift() when over maxHistoryFrames
PushFrame(frameHistory, entry) ==
    LET pushed == Append(frameHistory, entry)
    IN  IF Len(pushed) > maxHistoryFrames THEN Tail(pushed) ELSE pushed

(***************************************************************************)
(* analyzeAndCoach(landmarks, exerciseType): what the call returns and the *)
(* coach it leaves.  ret is the returned object, or Raised when the call   *)
(* throws.                                                                 *)
(***************************************************************************)
Raised == [raised |-> TRUE]

\* the entry test without its null check
NoLandmarksEmptyOnly(landmarks) == ~landmarks.isNull /\ landmarks.length = 0

\* the entry test without its length check
NoLandmarksNullOnly(landmarks) == landmarks.isNull

\* !landmarks || landmarks.length === 0
NoLandmarks(landmarks) == landmarks.isNull \/ landmarks.length = 0

\* verifyPosture is pure: its results on the catalogue, computed once
PostureOf ==
    [f \in FrameIds |-> [e \in ExerciseTypes |-> verifyPosture(Frames[f], e)]]

\* an answer without the session statistics
RespondNoStats(g, frameHistory, angles) ==
    IF g.raised THEN [coach |-> g.coach, said |-> g.said, ret |-> Raised]
    ELSE [coach |-> [g.coach EXCEPT !.frameHistory = frameHistory],
          said |-> g.said,
          ret |-> getConsistentFeedback(frameHistory)
                  @@ [currentAngles |-> angles]]

\* the end of analyzeAndCoach: the frame g = [raised, coach, said, feedback]
\* of generateFeedback is pushed on the history and the answer is put together
Respond(g, frameHistory, angles) ==
    IF g.raised THEN [coach |-> g.coach, said |-> g.said, ret |-> Raised]
    ELSE [coach |-> [g.coach EXCEPT !.frameHistory = frameHistory],
          said |-> g.said,
          ret |-> getConsistentFeedback(frameHistory)
                  @@ [currentAngles |-> angles,
                      sessionStats |-> getSessionStats(frameHistory)]]

Evaluate(g, angles, t) ==
    Respond(g,
            PushFrame(g.coach.frameHistory,
                      [timestamp |-> t, feedback |-> g.feedback, angles |-> angles]),
            angles)

EvaluatePosture(c, landmarks, posture, exerciseType, t, rnd) ==
    IF posture.raised THEN [coach |-> c, said |-> <<>>, ret |-> Raised]
    ELSE Evaluate(generateFeedback([coach |-> c, said |-> <<>>], landmarks,
                                   posture.angles, exerciseType, t, rnd),
                  posture.angles, t)

\* analyzeAndCoach(Frames[f], exerciseType)
analyzeAndCoach(c, f, exerciseType, t, rnd) ==
    IF NoLandmarks(Frames[f])
    THEN [coach |-> c, said |-> <<>>,
          ret |-> [primaryFeedback |-> "Position yourself in camera view",
                   tips |-> <<"Make sure your full body is visible">>,
                   priority |-> "critical",
                   motivational |-> ""]]
    ELSE EvaluatePosture(c, Frames[f], PostureOf[f][exerciseType], exerciseType, t, rnd)

(***************************************************************************)
(* State.  coach is the PoseCoach object, now the clock.  call, ret and    *)
(* said describe the last call made on the coach: the operation with its   *)
(* arguments, the value it returned and the messages it handed to the      *)
(* speech callback.  calls counts the calls; dirty records whether the     *)
(* coach differed from a new one when the last call began.  sumTrace lists *)
(* the doubled mean elbow angles fed to analyzePushup directly; ccArgs and *)
(* ccRet are the arguments and result of the last checkPostureCorrectness. *)
(* log lists the frames evaluated with landmarks since the last reset (for  *)
(* a direct analyzePushup call, with the push-up machine the call left),   *)
(* app is the application and its analyzer, fn the last call of a function *)
(* of utils.js with its arguments and result.                              *)
(***************************************************************************)
NoCall == [op |-> "none", landmarks |-> "null", exerciseType |-> "", calls |-> 0,
           dirty |-> FALSE]
NoRet == [none |-> TRUE]
NoCheck == [angles |-> ZeroAngles, exerciseType |-> ""]
\* no application around the coach, no utility function called yet
NoApp == [none |-> TRUE]
NoFn == [name |-> "none"]

\* the frames handed to the coach with landmarks since its construction or
\* last reset: the time of the call and the angles read off the frame
Logged(frames, f, exerciseType, t) ==
    IF Frames[f].isNull \/ Frames[f].length = 0 THEN frames
    ELSE Append(frames, [timestamp |-> t,
                         angles |-> PostureOf[f][exerciseType].angles])

Init ==
    /\ coach \in {NewPoseCoach(cb) : cb \in BOOLEAN}
    /\ now = StartTime
    /\ call = NoCall
    /\ ret = NoRet
    /\ said = <<>>
    /\ sumTrace = <<>>
    /\ ccArgs = NoCheck
    /\ ccRet = <<>>
    /\ log = <<>>
    /\ app = NoApp
    /\ fn = NoFn

IsDirty == coach # NewPoseCoach(coach.speakCallback)

\* one frame from the producer: coach.analyzeAndCoach(Frames[f], exerciseType)
AnalyzeAndCoach(f, exerciseType, rnd) ==
    LET r == analyzeAndCoach(coach, f, exerciseType, now, rnd)
    IN  /\ coach' = r.coach
        /\ ret' = r.ret
        /\ said' = r.said
        /\ call' = [op |-> "analyzeAndCoach", landmarks |-> f,
                    exerciseType |-> exerciseType, calls |-> call.calls + 1,
                    dirty |-> IsDirty]
        /\ log' = Logged(log, f, exerciseType, now)
        /\ UNCHANGED <<now, sumTrace, ccArgs, ccRet, app, fn>>

\* coach.reset()
Reset ==
    /\ coach' = reset(coach)
    /\ ret' = NoRet
    /\ said' = <<>>
    /\ call' = [op |-> "reset", landmarks |-> "null", exerciseType |-> "",
                calls |-> call.calls, dirty |-> IsDirty]
    /\ log' = <<>>
    /\ UNCHANGED <<now, sumTrace, ccArgs, ccRet, app, fn>>

\* time passes between two calls
Tick ==
    /\ now < StartTime + MaxTicks * TickMs
    /\ now' = now + TickMs
    /\ UNCHANGED <<coach, call, ret, said, sumTrace, ccArgs, ccRet, log, app, fn>>

\* analyzePushup(landmarks, angles) called with the angles given: the pose
\* is the good push-up pose, the elbow angles are leftElbow and rightElbow
AnalyzePushup(leftElbow, rightElbow) ==
    LET angles == [ZeroAngles EXCEPT !.elbow_angle_left = leftElbow,
                                     !.elbow_angle_right = rightElbow]
        g == analyzePushup([coach |-> coach, said |-> <<>>], PuGood, angles, now, 1)
    IN  /\ coach' = g.coach
        /\ ret' = IF g.raised THEN Raised ELSE g.feedback
        /\ said' = g.said
        /\ call' = [op |-> "analyzePushup", landmarks |-> "pu_good",
                    exerciseType |-> "pushup", calls |-> call.calls + 1,
                    dirty |-> IsDirty]
        /\ sumTrace' = Append(sumTrace, leftElbow + rightElbow)
        /\ log' = Append(log, [timestamp |-> now, angles |-> angles,
                               pushup |-> g.coach.exerciseState.pushup])
        /\ UNCHANGED <<now, ccArgs, ccRet, app, fn>>

\* checkPostureCorrectness(angles, exerciseType)
CheckPostureCorrectness(angles, exerciseType) ==
    /\ ccArgs' = [angles |-> angles, exerciseType |-> exerciseType]
    /\ ccRet' = checkPostureCorrectness(angles, exerciseType)
    /\ call' = [op |-> "checkPostureCorrectness", landmarks |-> "null",
                exerciseType |-> exerciseType, calls |-> call.calls + 1,
                dirty |-> IsDirty]
    /\ UNCHANGED <<coach, now, ret, said, sumTrace, log, app, fn>>

(***************************************************************************)
(* Spec: the coach fed with any frame of GeneralFrames under any exercise  *)
(* type, reset at any time, the clock advancing between calls.  The        *)
(* motivational message is one of the first two of its pool of four.       *)
(***************************************************************************)
Draws == {1, 2}

GeneralFrames == {"null", "empty", "short", "hole14", "hole23", "hole11",
                  "pu_good", "pu_low", "hs_good", "hs_pike"}

Frame ==
    /\ call.calls < MaxCalls
    /\ \E f \in GeneralFrames, exerciseType \in ExerciseTypes, rnd \in Draws :
            AnalyzeAndCoach(f, exerciseType, rnd)

Next == Frame \/ Reset \/ Tick

Spec == Init /\ [][Next]_vars

(***************************************************************************)
(* SpecPushup: a push-up session of a coach with a speech callback, one    *)
(* pose of PushupFrames per frame.                                         *)
(***************************************************************************)
PushupFrames == {"pu_good", "pu_bent", "pu_ext", "pu_sag", "pu_uneven"}

InitVoice == Init /\ coach.speakCallback

PushupFrame ==
    /\ call.calls < MaxPushupCalls
    /\ \E f \in PushupFrames, rnd \in Draws : AnalyzeAndCoach(f, "pushup", rnd)

SpecPushup == InitVoice /\ [][PushupFrame]_vars

(***************************************************************************)
(* SpecSentinel: a push-up session whose frames are good or extended       *)
(* poses, a pose whose wrists lie on the elbows, or an array that ends     *)
(* before the elbows: the last two give elbow angles of 0.                 *)
(***************************************************************************)
SentinelFrames == {"pu_good", "pu_ext", "pu_fold", "short"}

SentinelFrame ==
    /\ call.calls < MaxSentinelCalls
    /\ \E f \in SentinelFrames, rnd \in Draws : AnalyzeAndCoach(f, "pushup", rnd)

SpecSentinel == Init /\ [][SentinelFrame]_vars

(***************************************************************************)
(* SpecReps: analyzePushup called directly with synthetic elbow angles, as *)
(* a test of the rep counter does.                                         *)
(***************************************************************************)
SyntheticAngles == {<<50, 50>>, <<50, 125>>, <<125, 125>>, <<200, 125>>, <<200, 200>>}

SyntheticFrame ==
    /\ call.calls < MaxReps
    /\ \E a \in SyntheticAngles : AnalyzePushup(a[1], a[2])

SpecReps == Init /\ [][SyntheticFrame]_vars

(***************************************************************************)
(* SpecHandstand: a handstand session: frames with the wrists above the    *)
(* shoulders and the shoulders above the hips, a frame of a push-up pose   *)
(* and a frame whose left shoulder is missing, the clock advancing between *)
(* calls.                                                                  *)
(***************************************************************************)
HandstandFrames == {"hs_good", "hs_bent", "pu_good", "hole11"}

HandstandFrame ==
    /\ call.calls < MaxHandstandCalls
    /\ \E f \in HandstandFrames : AnalyzeAndCoach(f, "handstand", 1)

SpecHandstand == Init /\ [][HandstandFrame \/ Tick]_vars

(***************************************************************************)
(* SpecMilestone: a long push-up session of a coach with a speech          *)
(* callback: analyzePushup called with bent and with extended arms, the    *)
(* clock advancing between calls; the frames are not recorded.             *)
(***************************************************************************)
RepAngles == {<<50, 50>>, <<200, 200>>}

\* analyzePushup(landmarks, angles) with the good push-up pose and the
\* elbow angles given
CountPushup(leftElbow, rightElbow) ==
    LET angles == [ZeroAngles EXCEPT !.elbow_angle_left = leftElbow,
                                     !.elbow_angle_right = rightElbow]
        g == analyzePushup([coach |-> coach, said |-> <<>>], PuGood, angles, now, 1)
    IN  /\ coach' = g.coach
        /\ ret' = IF g.raised THEN Raised ELSE g.feedback
        /\ said' = g.said
        /\ call' = [op |-> "analyzePushup", landmarks |-> "pu_good",
                    exerciseType |-> "pushup", calls |-> call.calls + 1,
                    dirty |-> IsDirty]
        /\ UNCHANGED <<now, sumTrace, ccArgs, ccRet, log, app, fn>>

MilestoneFrame ==
    /\ call.calls < MaxMilestoneCalls
    /\ \E a \in RepAngles : CountPushup(a[1], a[2])

SpecMilestone == InitVoice /\ [][MilestoneFrame \/ Tick]_vars

(***************************************************************************)
(* SpecHysteresis: analyzePushup called directly with elbow angles whose   *)
(* means lie on and next to the two thresholds: 89.5, 90, 160 and 160.5.   *)
(***************************************************************************)
ThresholdAngles == {<<89, 90>>, <<90, 90>>, <<160, 160>>, <<161, 160>>}

ThresholdFrame ==
    /\ call.calls < MaxReps
    /\ \E a \in ThresholdAngles : AnalyzePushup(a[1], a[2])

SpecHysteresis == Init /\ [][ThresholdFrame]_vars

(***************************************************************************)
(* SpecCheck: checkPostureCorrectness applied to angle sets around the     *)
(* bounds of the reference ranges.                                         *)
(***************************************************************************)
CheckValues == {0, 89, 90, 120, 121, 159, 160, 169, 170, 180}

CheckAngleSets ==
    {[elbow_angle_left |-> a, elbow_angle_right |-> b,
      shoulder_hip_ankle_angle_left |-> c, shoulder_hip_ankle_angle_right |-> c]
        : a \in CheckValues, b \in {90, 121}, c \in CheckValues}

Check ==
    /\ call.calls < MaxChecks
    /\ \E angles \in CheckAngleSets, exerciseType \in ExerciseTypes :
            CheckPostureCorrectness(angles, exerciseType)

SpecCheck == Init /\ [][Check]_vars

(***************************************************************************)
(* SpecRing: a coach without a speech callback fed with more frames than   *)
(* its history holds, the arms bent or extended, reset at any time.        *)
(***************************************************************************)
RingFrames == {"pu_low", "pu_ext"}

InitRing == Init /\ ~coach.speakCallback

RingFrame ==
    /\ call.calls < MaxRingCalls
    /\ \E f \in RingFrames : AnalyzeAndCoach(f, "pushup", 1)

SpecRing == InitRing /\ [][RingFrame \/ Reset]_vars

(***************************************************************************)
(* The application: FitnessCoachApp (pose-coach.js) and its PoseAnalyzer.  *)
(* app holds the fields of both objects and the events in flight:          *)
(*   selected        the value of the exerciseSelect element               *)
(*   overlay         the overlay listeners are registered                  *)
(*   starting        the startAnalysis calls waiting in analyzer.start     *)
(*   pending         the frames sent to the pose model, results not in yet *)
(*   starts, frames  the start requests and frames sent so far             *)
(*   session         the sessions started or stopped so far                *)
(*   tags            the (exercise type, session) pairs under which the    *)
(*                   coach evaluated frames since its last reset           *)
(*   lateReset       a start completed on an analyzer already running      *)
(* The coach of the analyzer is the variable coach.                        *)
(***************************************************************************)
ExerciseOptions == {"pushup", "handstand"}

\* PoseAnalyzer before `new PoseAnalyzer(speechCallback)`
NoAnalyzer ==
    [exists |-> FALSE, isRunning |-> FALSE, exerciseType |-> "pushup",
     totalFrames |-> 0, detectedFrames |-> 0]

\* new PoseAnalyzer(speechCallback)
NewPoseAnalyzer == [NoAnalyzer EXCEPT !.exists = TRUE]

\* new FitnessCoachApp()
NewFitnessCoachApp ==
    [analyzer |-> NoAnalyzer, isRunning |-> FALSE, isPaused |-> FALSE,
     currentExercise |-> "pushup", selected |-> "pushup", overlay |-> FALSE,
     starting |-> 0, pending |-> 0, starts |-> 0, frames |-> 0,
     session |-> 0, tags |-> {}, lateReset |-> FALSE]

\* the world an event handler works on
World == [app |-> app, coach |-> coach, log |-> log]

\* this.coach.reset()
CoachReset(w) ==
    [w EXCEPT !.coach = reset(w.coach), !.log = <<>>, !.app.tags = {}]

\* an exercise switch that leaves the coach as it is
setExerciseTypeNoReset(w, exerciseType) ==
    [w EXCEPT !.app.analyzer.exerciseType = exerciseType]

\* PoseAnalyzer.setExerciseType(exerciseType)
setExerciseType(w, exerciseType) ==
    CoachReset([w EXCEPT !.app.analyzer.exerciseType = exerciseType])

\* results taken whether the analyzer runs or not
StoppedNever(analyzer) == FALSE

\* the test that opens onResults: !this.isRunning
Stopped(analyzer) == ~analyzer.isRunning

AppCall(op) ==
    [op |-> op, landmarks |-> "null", exerciseType |-> "", calls |-> call.calls,
     dirty |-> FALSE]

\* a handler that returns the world w
Handled(op, w) ==
    /\ app' = w.app
    /\ coach' = w.coach
    /\ log' = w.log
    /\ call' = AppCall(op)
    /\ ret' = NoRet
    /\ said' = <<>>
    /\ UNCHANGED <<now, sumTrace, ccArgs, ccRet, fn>>

InitApp ==
    /\ coach = NewPoseCoach(TRUE)
    /\ now = StartTime
    /\ call = NoCall
    /\ ret = NoRet
    /\ said = <<>>
    /\ sumTrace = <<>>
    /\ ccArgs = NoCheck
    /\ ccRet = <<>>
    /\ log = <<>>
    /\ app = NewFitnessCoachApp
    /\ fn = NoFn

\* the change listener of exerciseSelect: the user picks exerciseType
SelectExercise(exerciseType) ==
    Handled("selectExercise",
        IF app.analyzer.exists
        THEN setExerciseType([World EXCEPT !.app.selected = exerciseType,
                                           !.app.currentExercise = exerciseType],
                             exerciseType)
        ELSE [World EXCEPT !.app.selected = exerciseType,
                           !.app.currentExercise = exerciseType])

\* changeExercise(newValue), the change listener of the overlay dropdown
ChangeExercise(newValue) ==
    /\ app.overlay
    /\ Handled("changeExercise",
            IF app.analyzer.exists
            THEN setExerciseType([World EXCEPT !.app.selected = newValue], newValue)
            ELSE [World EXCEPT !.app.selected = newValue])

\* startAnalysis() up to its await of analyzer.start: the start button or
\* the Space key; camera tells whether a camera is selected
StartAnalysis(camera) ==
    /\ app.starts < MaxStarts
    /\ Handled("startAnalysis",
            IF app.isRunning \/ ~camera
            THEN [World EXCEPT !.app.starts = @ + 1]
            ELSE [World EXCEPT
                    !.app.starts = @ + 1,
                    !.app.overlay = TRUE,
                    !.app.analyzer = IF @.exists THEN @ ELSE NewPoseAnalyzer,
                    !.coach = IF app.analyzer.exists THEN @ ELSE NewPoseCoach(TRUE),
                    !.app.starting = @ + 1])

\* analyzer.start resolves and startAnalysis goes on: with success the
\* analyzer runs, the coach is reset and the app is running
StartCompleted(success) ==
    /\ app.starting > 0
    /\ Handled("startCompleted",
            IF success
            THEN CoachReset([World EXCEPT
                    !.app.starting = @ - 1,
                    !.app.analyzer.isRunning = TRUE,
                    !.app.isRunning = TRUE,
                    !.app.session = @ + 1,
                    !.app.lateReset = @ \/ app.analyzer.isRunning])
            ELSE [World EXCEPT !.app.starting = @ - 1])

\* stopAnalysis(): the stop buttons, Space or Escape
StopAnalysis ==
    Handled("stopAnalysis",
        IF ~app.isRunning THEN World
        ELSE CoachReset([World EXCEPT
                !.app.analyzer.isRunning = FALSE,
                !.app.isRunning = FALSE,
                !.app.isPaused = FALSE,
                !.app.session = @ + 1]))

\* togglePause(), the click listener of the overlay's pause button; the
\* analyzer has neither a pause nor a resume method, so analyzer.pause?.() and
\* analyzer.resume?.() do nothing
TogglePause ==
    /\ app.overlay
    /\ Handled("togglePause",
            IF app.analyzer.exists /\ app.analyzer.isRunning
            THEN [World EXCEPT !.app.isPaused = ~@]
            ELSE World)

\* the camera's onFrame: a frame is sent to the pose model
OnFrame ==
    /\ app.analyzer.isRunning
    /\ app.frames < MaxAppFrames
    /\ app.pending < MaxPending
    /\ Handled("onFrame", [World EXCEPT !.app.pending = @ + 1,
                                        !.app.frames = @ + 1])

\* onResults(results), results.poseLandmarks being Frames[f] (no pose: null);
\* the canvas context is there
OnResults(f, rnd) ==
    /\ app.pending > 0
    /\ IF Stopped(app.analyzer)
       THEN Handled("onResults", [World EXCEPT !.app.pending = @ - 1])
       ELSE IF Frames[f].isNull
       THEN Handled("onResults",
                [World EXCEPT !.app.pending = @ - 1,
                              !.app.analyzer.totalFrames = @ + 1])
       ELSE LET r == analyzeAndCoach(coach, f, app.analyzer.exerciseType, now, rnd)
            IN  /\ coach' = r.coach
                /\ ret' = r.ret
                /\ said' = r.said
                /\ log' = Logged(log, f, app.analyzer.exerciseType, now)
                /\ call' = [op |-> "analyzeAndCoach", landmarks |-> f,
                            exerciseType |-> app.analyzer.exerciseType,
                            calls |-> call.calls + 1, dirty |-> IsDirty]
                /\ app' = [app EXCEPT
                            !.pending = @ - 1,
                            !.analyzer.totalFrames = @ + 1,
                            !.analyzer.detectedFrames = @ + 1,
                            !.tags = @ \cup {<<app.analyzer.exerciseType,
                                                app.session>>}]
                /\ UNCHANGED <<now, sumTrace, ccArgs, ccRet, fn>>

ResultFrames == {"null", "pu_low", "hs_good"}

Select == \E exerciseType \in ExerciseOptions : SelectExercise(exerciseType)
Change == \E newValue \in ExerciseOptions : ChangeExercise(newValue)
Start == \E camera \in BOOLEAN : StartAnalysis(camera)
Completed == \E success \in BOOLEAN : StartCompleted(success)
Results == \E f \in ResultFrames : OnResults(f, 1)

NextApp ==
    \/ Select \/ Change \/ Start \/ Completed \/ StopAnalysis \/ TogglePause
    \/ OnFrame \/ Results

SpecApp == InitApp /\ [][NextApp]_vars

(***************************************************************************)
(* SpecAngle: calculateAngle applied to three points of a square grid.     *)
(***************************************************************************)
\* the largest coordinate of the grid
GridMax == 2

GridPoints == {[x |-> px, y |-> py] : px \in 0..GridMax, py \in 0..GridMax}

\* the state before a function of utils.js is applied to the inputs in fn
Idle ==
    /\ coach = NewPoseCoach(FALSE)
    /\ now = StartTime
    /\ call = NoCall
    /\ ret = NoRet
    /\ said = <<>>
    /\ sumTrace = <<>>
    /\ ccArgs = NoCheck
    /\ ccRet = <<>>
    /\ log = <<>>
    /\ app = NoApp

InitAngle ==
    /\ Idle
    /\ fn \in {[name |-> "input", pointA |-> a, pointB |-> b, pointC |-> c] :
                a \in GridPoints, b \in GridPoints, c \in GridPoints}

\* calculateAngle(pointA, pointB, pointC)
CalculateAngle ==
    /\ fn.name = "input"
    /\ fn' = [name |-> "calculateAngle",
              pointA |-> fn.pointA, pointB |-> fn.pointB, pointC |-> fn.pointC,
              ret |-> calculateAngle(fn.pointA, fn.pointB, fn.pointC)]
    /\ UNCHANGED <<coach, now, call, ret, said, sumTrace, ccArgs, ccRet, log, app>>

SpecAngle == InitAngle /\ [][CalculateAngle]_vars

(***************************************************************************)
(* SpecAccessor: getLandmarkCoordinates applied to a frame of the          *)
(* catalogue and an index from -1 to MaxIndex.                             *)
(***************************************************************************)
\* the largest index asked for
MaxIndex == 33

InitAccessor ==
    /\ Idle
    /\ fn \in {[name |-> "input", landmarks |-> f, landmarkIndex |-> i] :
                f \in FrameIds, i \in (-1)..MaxIndex}

\* getLandmarkCoordinates(Frames[fn.landmarks], fn.landmarkIndex)
GetLandmarkCoordinates ==
    /\ fn.name = "input"
    /\ fn' = [name |-> "getLandmarkCoordinates",
              landmarks |-> fn.landmarks, landmarkIndex |-> fn.landmarkIndex,
              ret |-> getLandmarkCoordinates(Frames[fn.landmarks], fn.landmarkIndex)]
    /\ UNCHANGED <<coach, now, call, ret, said, sumTrace, ccArgs, ccRet, log, app>>

SpecAccessor == InitAccessor /\ [][GetLandmarkCoordinates]_vars

(***************************************************************************)
(* SpecLadder: analyzePushup applied, on a new coach, to a frame and to    *)
(* elbow angles on and around the thresholds of its rules.                 *)
(***************************************************************************)
LadderFrames == {"pu_good", "pu_sag", "hole23"}

LadderAngles == {0, 69, 70, 85, 86, 100, 150, 151, 180}

InitLadder ==
    /\ Idle
    /\ fn \in {[name |-> "input", landmarks |-> f, leftElbow |-> l, rightElbow |-> r] :
                f \in LadderFrames, l \in LadderAngles, r \in LadderAngles}

\* analyzePushup(Frames[fn.landmarks], angles), the elbow angles being
\* fn.leftElbow and fn.rightElbow
ApplyLadder ==
    /\ fn.name = "input"
    /\ fn' = [name |-> "analyzePushup", landmarks |-> fn.landmarks,
              leftElbow |-> fn.leftElbow, rightElbow |-> fn.rightElbow,
              ret |-> analyzePushup([coach |-> coach, said |-> <<>>],
                        Frames[fn.landmarks],
                        [ZeroAngles EXCEPT !.elbow_angle_left = fn.leftElbow,
                                           !.elbow_angle_right = fn.rightElbow],
                        now, 1).feedback]
    /\ UNCHANGED <<coach, now, call, ret, said, sumTrace, ccArgs, ccRet, log, app>>

SpecLadder == InitLadder /\ [][ApplyLadder]_vars

(***************************************************************************)
(* SpecStats: one coach without speech callback fed more frames than its   *)
(* history holds: push-up frames of good form and with the arms extended,  *)
(* and, among the first calls, frames of an unknown exercise type.         *)
(***************************************************************************)
MaxStatsCalls == 11

MaxUnknownCalls == 2

StatsFrames == {"pu_good", "pu_ext"}

StatsFrame ==
    /\ call.calls < MaxStatsCalls
    /\ \/ \E f \in StatsFrames : AnalyzeAndCoach(f, "pushup", 1)
       \/ /\ call.calls < MaxUnknownCalls
          /\ AnalyzeAndCoach("pu_good", "squat", 1)

SpecStats == InitRing /\ [][StatsFrame]_vars

(***************************************************************************)
(* SpecSpeak: speak called on a coach with a speech callback, with and     *)
(* without priority, for two feedback types, the clock advancing by half   *)
(* the cooldown between calls.  log holds the messages handed to the       *)
(* callback so far: the time and the type of each.                         *)
(***************************************************************************)
MaxSpeakCalls == 5

MaxSpeakTicks == 2

SpeakTickMs == 2000

SpeakTypes == {"pushup_good_form", "pushup_good_depth"}

\* coach.speak(feedbackType, {}, priority)
Speak(feedbackType, priority) ==
    LET r == speak([coach |-> coach, said |-> <<>>], feedbackType, <<>>,
                   priority, now)
    IN  /\ call.calls < MaxSpeakCalls
        /\ coach' = r.coach
        /\ said' = r.said
        /\ ret' = NoRet
        /\ call' = [op |-> "speak", landmarks |-> "null", exerciseType |-> "",
                    calls |-> call.calls + 1, dirty |-> IsDirty,
                    feedbackType |-> feedbackType, priority |-> priority]
        /\ log' = IF r.said = <<>> THEN log
                  ELSE Append(log, [timestamp |-> now, type |-> r.said[1].type])
        /\ UNCHANGED <<now, sumTrace, ccArgs, ccRet, app, fn>>

SpeakRequest == \E feedbackType \in SpeakTypes, priority \in BOOLEAN :
                    Speak(feedbackType, priority)

SpeakTick ==
    /\ now < StartTime + MaxSpeakTicks * SpeakTickMs
    /\ now' = now + SpeakTickMs
    /\ UNCHANGED <<coach, call, ret, said, sumTrace, ccArgs, ccRet, log, app, fn>>

SpecSpeak == InitVoice /\ [][SpeakRequest \/ SpeakTick]_vars

(***************************************************************************)
(* The earlier PoseCoach class (voice-coach.js): no speech callback and no *)
(* exercise state, its state is the frame history.  Its sub-checks, its    *)
(* consistency filter, its motivational pools and its session statistics   *)
(* are, line for line, those of the class of pose-coach.js.                *)
(***************************************************************************)
EarlierAnalyzePushup(landmarks, angles, rnd) ==
    LET leftElbow == angles.elbow_angle_left
        rightElbow == angles.elbow_angle_right
        ladder ==
            IF leftElbow < 70 \/ rightElbow < 70
            THEN Feedback("Arms too bent - push higher!",
                    <<"Extend your arms more to complete the push-up">>,
                    "critical", "")
            ELSE IF leftElbow > 150 \/ rightElbow > 150
            THEN Feedback("Lower down more for full range",
                    <<"Bend your elbows to 90-110 degrees for proper form">>,
                    "critical", "")
            ELSE IF ~checkPushupBodyAlignment(landmarks).straight
            THEN Feedback("Keep your body straight",
                    <<"Engage your core to maintain a plank position">>,
                    "major", "")
            ELSE IF Abs(leftElbow - rightElbow) > 15
            THEN Feedback("Balance both arms equally",
                    <<"Lower both arms at the same rate">>, "major", "")
            ELSE Feedback("Excellent form!", <<"Keep up this great technique">>,
                    "success", getMotivationalMessage("good", rnd))
        tips1 == IF /\ leftElbow > 0 /\ rightElbow > 0
                    /\ leftElbow >= 90 /\ leftElbow <= 120
                    /\ rightElbow >= 90 /\ rightElbow <= 120
                 THEN <<"Perfect elbow angle range!">> ELSE <<>>
        tips2 == IF ~checkHeadPosition(landmarks).neutral
                 THEN <<"Keep your head in neutral position">> ELSE <<>>
    IN  [ladder EXCEPT !.tips = @ \o tips1 \o tips2]

EarlierAnalyzeHandstand(landmarks, angles, rnd) ==
    LET leftAlignment == angles.shoulder_hip_ankle_angle_left
        rightAlignment == angles.shoulder_hip_ankle_angle_right
        ladder ==
            IF angles.elbow_angle_left < 160 \/ angles.elbow_angle_right < 160
            THEN Feedback("Extend your arms fully",
                    <<"Lock your elbows for better stability">>, "critical", "")
            ELSE IF leftAlignment < 160 \/ rightAlignment < 160
            THEN Feedback("Straighten your body line",
                    <<"Engage your core and point your toes up">>, "critical", "")
            ELSE IF ~checkHandstandBalance(landmarks).centered
            THEN Feedback("Center your weight over hands",
                    <<"Shift your body to find the balance point">>, "major", "")
            ELSE IF Abs(leftAlignment - rightAlignment) > 10
            THEN Feedback("Keep both sides aligned",
                    <<"Engage your core evenly on both sides">>, "major", "")
            ELSE Feedback("Amazing handstand form!",
                    <<"Hold this position as long as you can">>, "success",
                    getMotivationalMessage("excellent", rnd))
        tips1 == IF leftAlignment > 170 /\ rightAlignment > 170
                 THEN <<"Perfect body alignment!">> ELSE <<>>
        tips2 == IF ~checkShoulderPosition(landmarks).stable
                 THEN <<"Keep your shoulders directly over your wrists">> ELSE <<>>
    IN  [ladder EXCEPT !.tips = @ \o tips1 \o tips2]

EarlierGenerateFeedback(landmarks, angles, exerciseType, rnd) ==
    IF exerciseType = "pushup" THEN EarlierAnalyzePushup(landmarks, angles, rnd)
    ELSE IF exerciseType = "handstand"
    THEN EarlierAnalyzeHandstand(landmarks, angles, rnd)
    ELSE Feedback("Select an exercise type", <<>>, "minor", "")

\* the history after the push and the shift of the earlier analyzeAndCoach
EarlierHistory(frameHistory, f, exerciseType, t, rnd) ==
    PushFrame(frameHistory,
              [timestamp |-> t,
               feedback |-> EarlierGenerateFeedback(Frames[f],
                                PostureOf[f][exerciseType].angles, exerciseType, rnd),
               angles |-> PostureOf[f][exerciseType].angles])

\* analyzeAndCoach(Frames[f], exerciseType) of the earlier class:
\* [frameHistory, ret]
EarlierAnalyzeAndCoach(frameHistory, f, exerciseType, t, rnd) ==
    IF NoLandmarks(Frames[f])
    THEN [frameHistory |-> frameHistory,
          ret |-> [primaryFeedback |-> "Position yourself in camera view",
                   tips |-> <<"Make sure your full body is visible">>,
                   priority |-> "critical",
                   motivational |-> ""]]
    ELSE [frameHistory |-> EarlierHistory(frameHistory, f, exerciseType, t, rnd),
          ret |-> getConsistentFeedback(
                        EarlierHistory(frameHistory, f, exerciseType, t, rnd))
                  @@ [currentAngles |-> PostureOf[f][exerciseType].angles,
                      sessionStats |-> getSessionStats(
                            EarlierHistory(frameHistory, f, exerciseType, t, rnd))]]

(***************************************************************************)
(* SpecParity: the same frames handed to a coach with a speech callback    *)
(* and to an object of the earlier class.  fn holds the earlier object:    *)
(* its frame history and the value its last call returned.                 *)
(***************************************************************************)
MaxParityCalls == 5

ParityInputs ==
    {<<"null", "pushup">>, <<"pu_good", "pushup">>, <<"pu_low", "pushup">>,
     <<"pu_ext", "pushup">>, <<"pu_sag", "pushup">>, <<"hs_good", "handstand">>,
     <<"hs_off", "handstand">>, <<"pu_good", "handstand">>, <<"pu_good", "squat">>}

InitParity ==
    /\ coach = NewPoseCoach(TRUE)
    /\ now = StartTime
    /\ call = NoCall
    /\ ret = NoRet
    /\ said = <<>>
    /\ sumTrace = <<>>
    /\ ccArgs = NoCheck
    /\ ccRet = <<>>
    /\ log = <<>>
    /\ app = NoApp
    /\ fn = [name |-> "earlier", frameHistory |-> <<>>, ret |-> NoRet]

\* one frame handed to both objects
ParityFrame ==
    /\ call.calls < MaxParityCalls
    /\ \E in \in ParityInputs :
        /\ coach' = analyzeAndCoach(coach, in[1], in[2], now, 1).coach
        /\ ret' = analyzeAndCoach(coach, in[1], in[2], now, 1).ret
        /\ said' = analyzeAndCoach(coach, in[1], in[2], now, 1).said
        /\ call' = [op |-> "analyzeAndCoach", landmarks |-> in[1],
                    exerciseType |-> in[2], calls |-> call.calls + 1,
                    dirty |-> IsDirty]
        /\ log' = Logged(log, in[1], in[2], now)
        /\ fn' = [name |-> "earlier",
                  frameHistory |->
                      EarlierAnalyzeAndCoach(fn.frameHistory, in[1], in[2],
                                             now, 1).frameHistory,
                  ret |-> EarlierAnalyzeAndCoach(fn.frameHistory, in[1], in[2],
                                                 now, 1).ret]
    /\ UNCHANGED <<now, sumTrace, ccArgs, ccRet, app>>

SpecParity == InitParity /\ [][ParityFrame]_vars

(***************************************************************************)
(* SpecHandstandLadder: analyzeHandstand applied, on a new coach, to a     *)
(* frame and to elbow and alignment angles on and around the thresholds of *)
(* its rules.  The wrist midpoint of the frames lies 0, 0.05, 0.1 and 0.15 *)
(* beside the shoulder midpoint; one frame has no left shoulder.           *)
(***************************************************************************)
BalanceFrames == {"hs_good", "hs_lean", "hs_off", "hs_far", "hole11"}

HandstandElbows == {159, 160, 180}

HandstandAlignments == {159, 160, 170, 171, 180}

InitHandstandLadder ==
    /\ Idle
    /\ fn \in {[name |-> "input", landmarks |-> f,
                 leftElbow |-> le, rightElbow |-> re,
                 leftAlignment |-> la, rightAlignment |-> ra] :
                f \in BalanceFrames, le \in HandstandElbows, re \in HandstandElbows,
                la \in HandstandAlignments, ra \in HandstandAlignments}

\* analyzeHandstand(Frames[fn.landmarks], angles) with the angles of fn
ApplyHandstandLadder ==
    /\ fn.name = "input"
    /\ fn' = [name |-> "analyzeHandstand", landmarks |-> fn.landmarks,
              leftElbow |-> fn.leftElbow, rightElbow |-> fn.rightElbow,
              leftAlignment |-> fn.leftAlignment,
              rightAlignment |-> fn.rightAlignment,
              ret |-> analyzeHandstand([coach |-> coach, said |-> <<>>],
                        Frames[fn.landmarks],
                        [elbow_angle_left |-> fn.leftElbow,
                         elbow_angle_right |-> fn.rightElbow,
                         shoulder_hip_ankle_angle_left |-> fn.leftAlignment,
                         shoulder_hip_ankle_angle_right |-> fn.rightAlignment],
                        now, 1).feedback]
    /\ UNCHANGED <<coach, now, call, ret, said, sumTrace, ccArgs, ccRet, log, app>>

SpecHandstandLadder == InitHandstandLadder /\ [][ApplyHandstandLadder]_vars

(***************************************************************************)
(* Properties.  call, ret and coach describe the last call and what it     *)
(* left, so a property of every call is an invariant over them.            *)
(***************************************************************************)
Evaluated == call.op = "analyzeAndCoach"

FeedbackFields == {"primaryFeedback", "tips", "priority", "motivational"}

\* the frame of the last call, and the angles verifyPosture reads off it
CallFrame == Frames[call.landmarks]
CallAngles == PostureOf[call.landmarks][call.exerciseType].angles

\* the last min(5, n) entries of the history and the share of a message
Window == LET n == Len(coach.frameHistory)
          IN  SubSeq(coach.frameHistory, IF n > 5 THEN n - 4 ELSE 1, n)

Holds70(msg) ==
    10 * Cardinality({i \in 1..Len(Window) :
                        Window[i].feedback.primaryFeedback = msg})
        >= 7 * Len(Window)

LatestFeedback == coach.frameHistory[Len(coach.frameHistory)].feedback

\* some message other than the latest frame's holds 70% of the window
OtherConsensus ==
    \E i \in 1..Len(Window) :
        /\ Window[i].feedback.primaryFeedback # LatestFeedback.primaryFeedback
        /\ Holds70(Window[i].feedback.primaryFeedback)

(***************************************************************************)
(* C1: every evaluate call whose landmarks are null or empty, in any coach *)
(* state and for any exercise type, returns priority critical, the message *)
(* "Position yourself in camera view" and exactly one tip.                 *)
(***************************************************************************)
C1_NoLandmarksCritical ==
    (Evaluated /\ (CallFrame.isNull \/ CallFrame.length = 0)) =>
        /\ FeedbackFields \subseteq DOMAIN ret
        /\ ret.priority = "critical"
        /\ ret.primaryFeedback = "Position yourself in camera view"
        /\ Len(ret.tips) = 1

\* an empty frame under handstand, on a coach that has frames in its history
C1_Witness ==
    /\ Evaluated
    /\ call.landmarks = "empty"
    /\ call.exerciseType = "handstand"
    /\ Len(coach.frameHistory) > 0
    /\ "priority" \in DOMAIN ret
    /\ ret.priority = "critical"

(***************************************************************************)
(* C2 as stated: for pushup, a frame whose left elbow angle is below 70    *)
(* gets priority critical from evaluate, whatever the right elbow, the     *)
(* landmark positions and the frames evaluated before it.                  *)
(***************************************************************************)
LeftElbowBent ==
    /\ Evaluated
    /\ call.exerciseType = "pushup"
    /\ ~(CallFrame.isNull \/ CallFrame.length = 0)
    /\ CallAngles.elbow_angle_left < 70

C2_Original == LeftElbowBent => ret.priority = "critical"

(***************************************************************************)
(* C2 amended: for pushup, a frame whose left elbow angle is below 70 is   *)
(* recorded in the history with priority critical, whatever the right      *)
(* elbow and the positions; evaluate returns priority critical for it      *)
(* unless another message holds at least 70% of the last min(5, n) frames, *)
(* so always in the first three frames of a history.                       *)
(***************************************************************************)
C2_BentArmCritical ==
    LeftElbowBent =>
        /\ LatestFeedback.priority = "critical"
        /\ LatestFeedback.primaryFeedback = "Arms too bent - push higher!"
        /\ (ret.priority = "critical" \/ OtherConsensus)
        /\ (Len(coach.frameHistory) <= 3 => ret.priority = "critical")

\* a bent left arm, right arm at 105, after two frames of another message
C2_Witness ==
    /\ LeftElbowBent
    /\ CallAngles.elbow_angle_right = 105
    /\ Len(coach.frameHistory) = 3
    /\ coach.frameHistory[1].feedback.primaryFeedback = "Excellent form!"
    /\ coach.frameHistory[2].feedback.primaryFeedback = "Excellent form!"
    /\ ret.priority = "critical"

(***************************************************************************)
(* C3 as stated: for pushup, a frame with both elbow angles 105 and a      *)
(* straight body (shoulder-hip and hip-ankle vertical spreads below 0.1)   *)
(* gets priority success from evaluate.                                    *)
(***************************************************************************)
GoodPushupFrame ==
    /\ Evaluated
    /\ call.exerciseType = "pushup"
    /\ ~(CallFrame.isNull \/ CallFrame.length = 0)
    /\ CallAngles.elbow_angle_left = 105
    /\ CallAngles.elbow_angle_right = 105
    /\ Abs(CallFrame.at[11].y - CallFrame.at[23].y) < 2
    /\ Abs(CallFrame.at[23].y - CallFrame.at[27].y) < 2

C3_Original == GoodPushupFrame => ret.priority = "success"

(***************************************************************************)
(* C3 amended: for pushup, a frame with both elbow angles 105 and a        *)
(* straight body is recorded in the history with priority success;         *)
(* evaluate returns priority success for it unless another message holds   *)
(* at least 70% of the last min(5, n) frames, so always in the first three *)
(* frames of a history.                                                    *)
(***************************************************************************)
C3_GoodFormSuccess ==
    GoodPushupFrame =>
        /\ LatestFeedback.priority = "success"
        /\ LatestFeedback.primaryFeedback = "Excellent form!"
        /\ (ret.priority = "success" \/ OtherConsensus)
        /\ (Len(coach.frameHistory) <= 3 => ret.priority = "success")

\* a good frame after two frames with a sagging hip
C3_Witness ==
    /\ GoodPushupFrame
    /\ Len(coach.frameHistory) = 3
    /\ coach.frameHistory[1].feedback.primaryFeedback = "Keep your body straight"
    /\ coach.frameHistory[2].feedback.primaryFeedback = "Keep your body straight"
    /\ ret.priority = "success"

(***************************************************************************)
(* C4: from the initial push-up state (up, 0 reps) the rep counter goes up *)
(* by one exactly on the frames whose mean elbow angle exceeds 160 while   *)
(* the position is down, and on no other; the means 200, 200, 200, 50, 50, *)
(* 200 leave it at 1, the increment happening on the last frame.           *)
(* sumTrace holds the doubled means; the position is down before frame i   *)
(* when a mean below 90 came before i with no mean above 160 since.        *)
(***************************************************************************)
DownBefore(trace, i) ==
    \E j \in 1..(i - 1) :
        /\ trace[j] < 180
        /\ \A k \in (j + 1)..(i - 1) : trace[k] <= 320

RepFrames(trace) == {i \in 1..Len(trace) : trace[i] > 320 /\ DownBefore(trace, i)}

C4_RepCounter ==
    /\ coach.exerciseState.pushup.repCount = Cardinality(RepFrames(sumTrace))
    /\ coach.exerciseState.pushup.position =
            (IF DownBefore(sumTrace, Len(sumTrace) + 1) THEN "down" ELSE "up")
    /\ sumTrace = <<400, 400, 400, 100, 100>> =>
            coach.exerciseState.pushup.repCount = 0
    /\ sumTrace = <<400, 400, 400, 100, 100, 400>> =>
            coach.exerciseState.pushup.repCount = 1

\* the sequence of the example, just after its last frame
C4_Witness ==
    /\ call.op = "analyzePushup"
    /\ sumTrace = <<400, 400, 400, 100, 100, 400>>
    /\ coach.exerciseState.pushup.repCount = 1
    /\ coach.exerciseState.pushup.position = "up"

(***************************************************************************)
(* C5: after a frame is appended, the stable feedback comes from the last  *)
(* min(5, n) history entries: a message found in at least 70% of them (4   *)
(* of 5, 3 of 4, 3 of 3, 2 of 2, 1 of 1) is the stable primary message;    *)
(* when there is none, the stable output is the latest frame's feedback.   *)
(***************************************************************************)
SomeConsensus ==
    \E i \in 1..Len(Window) : Holds70(Window[i].feedback.primaryFeedback)

StableOf(r) == [k \in FeedbackFields |-> r[k]]

C5_StableFeedback ==
    (Evaluated /\ Len(coach.frameHistory) > 0 /\ FeedbackFields \subseteq DOMAIN ret) =>
        /\ Len(Window) = (IF Len(coach.frameHistory) < 5
                          THEN Len(coach.frameHistory) ELSE 5)
        /\ \A i \in 1..Len(Window) :
                Holds70(Window[i].feedback.primaryFeedback) =>
                    ret.primaryFeedback = Window[i].feedback.primaryFeedback
        /\ ~SomeConsensus => StableOf(ret) = StableOf(LatestFeedback)

\* one message in four of the last five frames, the latest frame dissenting,
\* in a history longer than the window
C5_Witness ==
    /\ Evaluated
    /\ Len(coach.frameHistory) = 6
    /\ \A i \in 1..4 : Window[i].feedback.primaryFeedback = "Excellent form!"
    /\ LatestFeedback.primaryFeedback = "Arms too bent - push higher!"
    /\ coach.frameHistory[1].feedback.primaryFeedback = "Keep your body straight"
    /\ ret.primaryFeedback = "Excellent form!"

\* five pairwise distinct messages: the latest one is returned
C5_WitnessDistinct ==
    /\ Evaluated
    /\ Len(Window) = 5
    /\ \A i, j \in 1..5 :
            i # j => Window[i].feedback.primaryFeedback
                        # Window[j].feedback.primaryFeedback
    /\ StableOf(ret) = StableOf(LatestFeedback)

(***************************************************************************)
(* C6: after reset(), whatever evaluate calls and speech came before, the  *)
(* coach's history, session statistics, push-up and handstand machines     *)
(* and speech records equal those of a newly constructed coach; a second   *)
(* reset changes nothing.                                                  *)
(***************************************************************************)
C6_ResetIsConstruction ==
    call.op = "reset" =>
        /\ coach.frameHistory = <<>>
        /\ getSessionStats(coach.frameHistory)
                = [totalFrames |-> 0, goodFormFrames |-> 0, goodFormPercentage |-> 0]
        /\ coach.exerciseState.pushup
                = [position |-> "up", repCount |-> 0, lastRepTime |-> 0]
        /\ coach.exerciseState.handstand
                = [isInHandstand |-> FALSE, entryTime |-> 0, repCount |-> 0]
        /\ coach.lastSpokenFeedback = [type |-> "", time |-> 0]
        /\ coach.recentFeedbackTypes = <<>>
        /\ coach.lastFeedbackTime = 0
        /\ coach = NewPoseCoach(coach.speakCallback)
        /\ reset(coach) = coach

\* a reset of a coach with a speech callback that had evaluated frames and
\* differed from a new one
C6_Witness ==
    /\ call.op = "reset"
    /\ call.dirty
    /\ call.calls >= 1
    /\ coach.speakCallback

(***************************************************************************)
(* C7: the mapping checkPostureCorrectness returns has an entry only for   *)
(* the angle ids whose bucket is configured for the exercise: for pushup   *)
(* the shoulder_hip_ankle ids are absent, for an unknown exercise type the *)
(* mapping is empty.                                                       *)
(***************************************************************************)
Checked == call.op = "checkPostureCorrectness"

ElbowIds == {"elbow_angle_left", "elbow_angle_right"}
BodyLineIds == {"shoulder_hip_ankle_angle_left", "shoulder_hip_ankle_angle_right"}

ConfiguredIds(exerciseType) ==
    IF exerciseType = "pushup" THEN ElbowIds
    ELSE IF exerciseType = "handstand" THEN ElbowIds \cup BodyLineIds
    ELSE {}

C7_OnlyConfiguredIds ==
    Checked =>
        /\ DOMAIN ccRet \subseteq ConfiguredIds(ccArgs.exerciseType)
        /\ ccArgs.exerciseType = "pushup" => DOMAIN ccRet \cap BodyLineIds = {}
        /\ ccArgs.exerciseType \notin {"pushup", "handstand"} => DOMAIN ccRet = {}

\* a pushup check of angles whose body line values lie in the handstand range
C7_Witness ==
    /\ Checked
    /\ ccArgs.exerciseType = "pushup"
    /\ ccArgs.angles.shoulder_hip_ankle_angle_left = 180
    /\ DOMAIN ccRet = ElbowIds

(***************************************************************************)
(* C8: for every angle id with a bucket, checkPostureCorrectness answers   *)
(* true exactly when the angle lies within the bucket's inclusive bounds:  *)
(* pushup elbow [90,120], handstand elbow [160,180], handstand body line   *)
(* [170,180], the same bucket for the left and the right id.               *)
(***************************************************************************)
BucketMin(exerciseType, id) ==
    IF exerciseType = "pushup" THEN 90
    ELSE IF id \in ElbowIds THEN 160 ELSE 170

BucketMax(exerciseType, id) == IF exerciseType = "pushup" THEN 120 ELSE 180

C8_InclusiveBounds ==
    Checked =>
        /\ ConfiguredIds(ccArgs.exerciseType) \subseteq DOMAIN ccRet
        /\ \A id \in DOMAIN ccRet :
                ccRet[id] = (/\ BucketMin(ccArgs.exerciseType, id) <= ccArgs.angles[id]
                             /\ ccArgs.angles[id] <= BucketMax(ccArgs.exerciseType, id))

\* both bounds of the pushup bucket accepted, one on each side
C8_Witness ==
    /\ Checked
    /\ ccArgs.exerciseType = "pushup"
    /\ ccArgs.angles.elbow_angle_left = 120
    /\ ccArgs.angles.elbow_angle_right = 90
    /\ ccRet.elbow_angle_left
    /\ ccRet.elbow_angle_right

(***************************************************************************)
(* C9 as stated: every evaluate call, landmarks present or absent, returns *)
(* the stable feedback fields together with currentAngles and              *)
(* sessionStats.                                                           *)
(***************************************************************************)
C9_Original ==
    Evaluated => (FeedbackFields \cup {"currentAngles", "sessionStats"})
                    \subseteq DOMAIN ret

(***************************************************************************)
(* C9 amended: an evaluate call with a non-empty landmark array returns    *)
(* the stable feedback fields together with currentAngles and              *)
(* sessionStats; a call with null or empty landmarks returns the four      *)
(* feedback fields alone.                                                  *)
(***************************************************************************)
C9_ResultFields ==
    Evaluated =>
        DOMAIN ret = (IF CallFrame.isNull \/ CallFrame.length = 0
                      THEN FeedbackFields
                      ELSE FeedbackFields \cup {"currentAngles", "sessionStats"})

\* a call without landmarks on a coach with a frame in its history
C9_Witness ==
    /\ Evaluated
    /\ call.landmarks = "null"
    /\ Len(coach.frameHistory) = 1
    /\ DOMAIN ret = FeedbackFields

(***************************************************************************)
(* C10: evaluate never raises to its caller: for null or empty landmarks,  *)
(* arrays of fewer than 33 entries and arrays with missing entries, for    *)
(* any exercise type string and any coach state, it returns a feedback     *)
(* value.                                                                  *)
(***************************************************************************)
Priorities == {"critical", "major", "minor", "success"}

C10_NeverRaises ==
    Evaluated =>
        /\ ret # Raised
        /\ FeedbackFields \subseteq DOMAIN ret
        /\ ret.priority \in Priorities

\* an array whose left shoulder entry is missing, under handstand
C10_Witness ==
    /\ Evaluated
    /\ call.landmarks = "hole11"
    /\ call.exerciseType = "handstand"
    /\ ~CallFrame.at[11].def
    /\ FeedbackFields \subseteq DOMAIN ret
    /\ ret.primaryFeedback = "Extend your arms fully"

(***************************************************************************)
(* C11 as stated: getLandmarkCoordinates returns the zero coordinate when  *)
(* landmarks is absent or empty or the index lies outside 0..length-1      *)
(* (negative indices included), the stored (x, y) otherwise, and never     *)
(* throws, also when an in-range entry is missing.                         *)
(***************************************************************************)
Got == fn.name = "getLandmarkCoordinates"

GotFrame == Frames[fn.landmarks]

IndexInRange ==
    /\ ~GotFrame.isNull
    /\ 0 <= fn.landmarkIndex
    /\ fn.landmarkIndex < GotFrame.length

C11_Original ==
    Got =>
        /\ ~fn.ret.thrown
        /\ ~IndexInRange => (fn.ret.x = 0 /\ fn.ret.y = 0)
        /\ (IndexInRange /\ GotFrame.at[fn.landmarkIndex].def) =>
                /\ fn.ret.x = GotFrame.at[fn.landmarkIndex].x
                /\ fn.ret.y = GotFrame.at[fn.landmarkIndex].y

(***************************************************************************)
(* C14: calculateAngle is symmetric in its outer points: for all points A, *)
(* B, C of the grid, angle(A, B, C) = angle(C, B, A).                      *)
(***************************************************************************)
Angled == fn.name = "calculateAngle"

C14_AngleSymmetric ==
    Angled => fn.ret = calculateAngle(fn.pointC, fn.pointB, fn.pointA)

\* three distinct points at a skew angle, the outer points not mirror images
C14_Witness ==
    /\ Angled
    /\ fn.pointA = [x |-> 2, y |-> 0]
    /\ fn.pointB = [x |-> 0, y |-> 0]
    /\ fn.pointC = [x |-> 1, y |-> 2]
    /\ fn.ret = 63

(***************************************************************************)
(* C15: calculateAngle returns exactly 0 when A or C coincides with B (a   *)
(* zero-length vector), without dividing and without throwing; for every   *)
(* other input the result lies in [0, 180].                                *)
(***************************************************************************)
C15_ZeroSentinel ==
    Angled =>
        /\ (fn.pointA = fn.pointB \/ fn.pointC = fn.pointB) => fn.ret = 0
        /\ fn.ret \in 0..180

\* C on the vertex, A away from it
C15_Witness ==
    /\ Angled
    /\ fn.pointA = [x |-> 2, y |-> 1]
    /\ fn.pointB = [x |-> 1, y |-> 1]
    /\ fn.pointC = fn.pointB
    /\ fn.ret = 0

(***************************************************************************)
(* C12: the history buffer never holds more than 10 entries; a frame       *)
(* appended to a full buffer drops exactly the oldest entry, so the buffer *)
(* always equals the last min(10, n) frames evaluated with landmarks since *)
(* the last reset, in arrival order.                                       *)
(***************************************************************************)
C12_RingBuffer ==
    LET h == coach.frameHistory
        n == Len(log)
    IN  /\ Len(h) <= 10
        /\ Len(h) = (IF n < 10 THEN n ELSE 10)
        /\ \A i \in 1..Len(h) :
                /\ h[i].timestamp = log[n - Len(h) + i].timestamp
                /\ h[i].angles = log[n - Len(h) + i].angles

\* twelve frames since the last reset, the two evicted ones unlike the two
\* that came after them
C12_Witness ==
    /\ Len(log) = 12
    /\ Len(coach.frameHistory) = 10
    /\ log[1].angles # log[3].angles
    /\ log[2].angles # log[4].angles
    /\ coach.frameHistory[1].angles = log[3].angles

(***************************************************************************)
(* C16 as stated: the coach only shows feedback that is consistent across  *)
(* frames: every primary message evaluate returns for a frame with         *)
(* landmarks holds at least 70% of the sampled window of recent frames.    *)
(***************************************************************************)
WithLandmarks == Evaluated /\ ~(CallFrame.isNull \/ CallFrame.length = 0)

C17_UnknownExercise ==
    (WithLandmarks /\ call.exerciseType \notin {"pushup", "handstand"}) =>
        /\ ret # Raised
        /\ "currentAngles" \in DOMAIN ret
        /\ \A a \in DOMAIN ret.currentAngles : ret.currentAngles[a] = 0
        /\ DOMAIN ret.currentAngles
                = {"elbow_angle_left", "elbow_angle_right",
                   "shoulder_hip_ankle_angle_left", "shoulder_hip_ankle_angle_right"}
        /\ coach.frameHistory # <<>>
        /\ LatestFeedback = [primaryFeedback |-> "Select an exercise type",
                             tips |-> <<>>, priority |-> "minor",
                             motivational |-> ""]

\* a good push-up pose under the type squat, after a frame judged as push-up
C17_Witness ==
    /\ WithLandmarks
    /\ call.exerciseType = "squat"
    /\ call.landmarks = "pu_good"
    /\ Len(coach.frameHistory) = 2
    /\ coach.frameHistory[1].feedback.primaryFeedback = "Excellent form!"
    /\ LatestFeedback.primaryFeedback = "Select an exercise type"

(***************************************************************************)
(* C13: whenever the exercise type is changed (exercise select, overlay    *)
(* dropdown) or a session is started or stopped, the coach is reset before *)
(* the next frame is evaluated: the coach's history and rep/hold state     *)
(* never stem from another exercise type or another session than the       *)
(* current one.                                                            *)
(***************************************************************************)
PushupMessages ==
    {"Arms too bent - push higher!", "Lower down more for full range",
     "Keep your body straight", "Balance both arms equally", "Excellent form!"}

MessagesOf(exerciseType) ==
    IF exerciseType = "pushup" THEN PushupMessages
    ELSE {"Extend your arms fully", "Straighten your body line",
          "Center your weight over hands", "Keep both sides aligned",
          "Amazing handstand form!"}

C13_ResetBeforeNextFrame ==
    "tags" \in DOMAIN app =>
        /\ app.tags \subseteq {<<app.analyzer.exerciseType, app.session>>}
        /\ app.tags = {} =>
                /\ coach.frameHistory = <<>>
                /\ coach.exerciseState.pushup.position = "up"
                /\ ~coach.exerciseState.handstand.isInHandstand
        /\ \A i \in 1..Len(coach.frameHistory) :
                coach.frameHistory[i].feedback.primaryFeedback
                    \in MessagesOf(app.analyzer.exerciseType)
        /\ app.analyzer.exerciseType = "pushup" =>
                ~coach.exerciseState.handstand.isInHandstand
        /\ app.analyzer.exerciseType = "handstand" =>
                coach.exerciseState.pushup.position = "up"

\* a handstand frame evaluated in a second session, after a session of
\* push-up frames and an exercise switch
C13_Witness ==
    /\ "tags" \in DOMAIN app
    /\ Evaluated
    /\ app.session >= 3
    /\ call.exerciseType = "handstand"
    /\ app.analyzer.totalFrames >= 2
    /\ Len(coach.frameHistory) = 1
    /\ coach.exerciseState.handstand.isInHandstand

(***************************************************************************)
(* C18 as stated: while analysis runs, the exercise type the analyzer      *)
(* passes to evaluate is the one the user selected last in the UI (also    *)
(* when selected before the first start, when no analyzer existed), and    *)
(* after every exercise switch the app's currentExercise equals the        *)
(* analyzer's exerciseType.                                                *)
(***************************************************************************)
C18_Original ==
    "selected" \in DOMAIN app =>
        /\ Evaluated => call.exerciseType = app.selected
        /\ (call.op \in {"selectExercise", "changeExercise"} /\ app.analyzer.exists)
                => app.currentExercise = app.analyzer.exerciseType

(***************************************************************************)
(* C19 as stated: at most one start is in flight: a start request issued   *)
(* while an earlier startAnalysis has not completed begins no second       *)
(* analyzer.start, and no running session's coach is reset by the late     *)
(* completion of an earlier start.                                         *)
(***************************************************************************)
C19_Original ==
    "starting" \in DOMAIN app => (app.starting <= 1 /\ ~app.lateReset)

(***************************************************************************)
(* C20: after the analyzer is stopped, a results callback that arrives     *)
(* late is ignored: it changes neither the coach's history and exercise    *)
(* state nor the frame counters.                                           *)
(***************************************************************************)
LateResults ==
    /\ app.pending > 0
    /\ app'.pending = app.pending - 1
    /\ ~app.analyzer.isRunning

C20_LateResultsIgnored ==
    [][LateResults =>
        /\ coach' = coach
        /\ log' = log
        /\ app'.analyzer = app.analyzer
        /\ app'.tags = app.tags]_vars

\* results arrived for a frame sent before the stop, after a frame was
\* counted in the session
C20_Witness ==
    /\ call.op = "onResults"
    /\ "pending" \in DOMAIN app
    /\ ~app.analyzer.isRunning
    /\ app.analyzer.exists
    /\ app.frames = 2
    /\ app.analyzer.totalFrames = 1
    /\ app.pending = 0
    /\ coach.frameHistory = <<>>

(***************************************************************************)
(* C21 as stated: every frame the producer delivers while the analyzer is  *)
(* running, with or without detected landmarks, triggers exactly one       *)
(* evaluation by the coach, one evaluation being complete before the next  *)
(* begins.  A step is the arrival of results at a running analyzer when it *)
(* takes a frame off the pending ones; the evaluations are counted in      *)
(* call.calls.                                                             *)
(***************************************************************************)
ResultsWhileRunning ==
    /\ app.pending > 0
    /\ app'.pending = app.pending - 1
    /\ app.analyzer.isRunning

C21_Original ==
    [][ResultsWhileRunning => call'.calls = call.calls + 1]_vars

(***************************************************************************)
(* C22 as stated: while the app is paused (after togglePause and before    *)
(* resume or stop), no frame is evaluated by the coach and no history      *)
(* entry, rep count or session statistic changes: results that arrive      *)
(* while the app is paused leave the coach and the analyzer's frame        *)
(* counters as they were.                                                  *)
(***************************************************************************)
ResultsWhilePaused ==
    /\ app.isPaused
    /\ app'.isPaused
    /\ app.pending > 0
    /\ app'.pending = app.pending - 1

C22_Original ==
    [][ResultsWhilePaused =>
        /\ call'.calls = call.calls
        /\ coach' = coach
        /\ app'.analyzer = app.analyzer]_vars

(***************************************************************************)
(* C23: the push-up state machine has hysteresis: a frame whose mean elbow *)
(* angle lies in [90,160] leaves position, rep count and last-rep time     *)
(* unchanged, as does a frame with mean above 160 while the position is up *)
(* and a frame with mean below 90 while the position is down; two counted  *)
(* reps are always separated by at least one frame with mean below 90.     *)
(* sumTrace[i] is the doubled mean of frame i, log[i].pushup the machine   *)
(* frame i left.                                                           *)
(***************************************************************************)
MachineBefore(i) == IF i = 1 THEN InitExerciseState.pushup ELSE log[i - 1].pushup

RepCountedAt(i) == log[i].pushup.repCount = MachineBefore(i).repCount + 1

C23_Hysteresis ==
    (call.op \in {"none", "analyzePushup"} /\ Len(log) = Len(sumTrace)) =>
        /\ \A i \in 1..Len(sumTrace) :
            /\ (180 <= sumTrace[i] /\ sumTrace[i] <= 320) =>
                    log[i].pushup = MachineBefore(i)
            /\ (sumTrace[i] > 320 /\ MachineBefore(i).position = "up") =>
                    log[i].pushup = MachineBefore(i)
            /\ (sumTrace[i] < 180 /\ MachineBefore(i).position = "down") =>
                    log[i].pushup = MachineBefore(i)
        /\ \A i, j \in 1..Len(sumTrace) :
            (i < j /\ RepCountedAt(i) /\ RepCountedAt(j)) =>
                \E k \in (i + 1)..(j - 1) : sumTrace[k] < 180

\* two reps counted, frames with means of exactly 90 and 160 between the
\* first descent and the first rep, and a mean of 160 between the two reps
C23_Witness ==
    /\ call.op = "analyzePushup"
    /\ sumTrace = <<179, 180, 320, 321, 179, 321>>
    /\ RepCountedAt(4)
    /\ RepCountedAt(6)
    /\ coach.exerciseState.pushup.repCount = 2

(***************************************************************************)
(* C24 as stated: a push-up frame whose elbow angles are the 0 sentinel    *)
(* (coincident or unavailable landmarks) is not taken for a real           *)
(* zero-degree bend: it does not move the push-up state machine from up to *)
(* down, so it cannot make the following extended-arm frame count as a     *)
(* rep.  A step is the evaluation of such a frame.                         *)
(***************************************************************************)
SentinelEvaluated ==
    /\ call'.op = "analyzeAndCoach"
    /\ call'.calls = call.calls + 1
    /\ call'.exerciseType = "pushup"
    /\ ~(Frames[call'.landmarks].isNull \/ Frames[call'.landmarks].length = 0)
    /\ PostureOf[call'.landmarks].pushup.angles.elbow_angle_left = 0
    /\ PostureOf[call'.landmarks].pushup.angles.elbow_angle_right = 0

C24_Original ==
    [][SentinelEvaluated =>
        /\ coach'.exerciseState.pushup.position = coach.exerciseState.pushup.position
        /\ coach'.exerciseState.pushup.repCount = coach.exerciseState.pushup.repCount]_vars

(***************************************************************************)
(* C25: with a speak callback installed, a milestone signal is emitted     *)
(* exactly once for each rep completion that brings the push-up rep count  *)
(* to 5, 10, 15 or a later multiple of 5, as a priority message (delivered *)
(* whatever the cooldown and the recently spoken types), and for no other  *)
(* rep count; emitting it changes neither the position nor the rep count,  *)
(* which are those of any rep completion.  A step is one analyzePushup     *)
(* call; said' holds the messages it handed to the callback.               *)
(***************************************************************************)
MilestoneTypes ==
    {"milestone_5_reps", "milestone_10_reps", "milestone_15_reps",
     "pushup_rep_completed"}

MilestonesIn(msgs) == {i \in 1..Len(msgs) : msgs[i].type \in MilestoneTypes}

\* the signal of rep count n: its type and the count it tells
IsMilestoneOf(msg, n) ==
    IF n = 5 THEN msg.type = "milestone_5_reps"
    ELSE IF n = 10 THEN msg.type = "milestone_10_reps"
    ELSE IF n = 15 THEN msg.type = "milestone_15_reps"
    ELSE msg.type = "pushup_rep_completed" /\ msg.reps = n

PushupCalled == call'.op = "analyzePushup" /\ call'.calls = call.calls + 1

RepCompletedNow ==
    coach'.exerciseState.pushup.repCount = coach.exerciseState.pushup.repCount + 1

C25_Milestones ==
    [][(PushupCalled /\ coach.speakCallback) =>
        /\ (RepCompletedNow /\ coach'.exerciseState.pushup.repCount % 5 = 0) =>
            /\ Cardinality(MilestonesIn(said')) = 1
            /\ \A i \in MilestonesIn(said') :
                    IsMilestoneOf(said'[i], coach'.exerciseState.pushup.repCount)
            /\ coach'.exerciseState.pushup.position = "up"
            /\ coach'.lastSpokenFeedback.time = now
        /\ ~(RepCompletedNow /\ coach'.exerciseState.pushup.repCount % 5 = 0) =>
            MilestonesIn(said') = {}
        /\ ~RepCompletedNow =>
            coach'.exerciseState.pushup.repCount
                = coach.exerciseState.pushup.repCount]_vars

\* the 25th rep just counted: its signal is spoken although the one of the
\* 20th rep, of the same type, is among the recent types and the 24th rep
\* was spoken of within the cooldown
C25_Witness ==
    /\ call.op = "analyzePushup"
    /\ coach.exerciseState.pushup.repCount = 25
    /\ Len(said) >= 1
    /\ said[1].type = "pushup_rep_completed"
    /\ said[1].reps = 25
    /\ coach.recentFeedbackTypes[Len(coach.recentFeedbackTypes) - 1]
            = "pushup_rep_completed"
    /\ now = StartTime

(***************************************************************************)
(* C26 as stated: the handstand state machine starts not-inverted; over    *)
(* any sequence of handstand frames its rep counter goes up by exactly 1   *)
(* on each frame where the inversion test (left wrist y < left shoulder y  *)
(* < left hip y) holds while the state is not-inverted, recording the      *)
(* entry time, and on no other frame; on each frame where the test fails   *)
(* while inverted the state returns to not-inverted and the hold duration  *)
(* reported equals now minus the recorded entry time, never negative.  A   *)
(* step is the evaluation of a frame of 33 entries; the duration is        *)
(* reported in the message handed to the speech callback, in tenths of a   *)
(* second.                                                                 *)
(***************************************************************************)
\* the inversion test read off a frame of 33 entries
InversionTest(f) ==
    /\ Frames[f].at[15].def /\ Frames[f].at[11].def /\ Frames[f].at[23].def
    /\ Frames[f].at[15].y < Frames[f].at[11].y
    /\ Frames[f].at[11].y < Frames[f].at[23].y

HandstandEvaluated ==
    /\ call'.op = "analyzeAndCoach"
    /\ call'.calls = call.calls + 1
    /\ call'.exerciseType = "handstand"
    /\ Frames[call'.landmarks].length = 33

Entering ==
    InversionTest(call'.landmarks) /\ ~coach.exerciseState.handstand.isInHandstand

Leaving ==
    ~InversionTest(call'.landmarks) /\ coach.exerciseState.handstand.isInHandstand

\* the counter, the entry time and the flag across one frame
HandstandMachineStep ==
    /\ Entering =>
        /\ coach'.exerciseState.handstand.repCount
                = coach.exerciseState.handstand.repCount + 1
        /\ coach'.exerciseState.handstand.entryTime = now
        /\ coach'.exerciseState.handstand.isInHandstand
    /\ ~Entering =>
        /\ coach'.exerciseState.handstand.repCount
                = coach.exerciseState.handstand.repCount
        /\ coach'.exerciseState.handstand.entryTime
                = coach.exerciseState.handstand.entryTime
    /\ Leaving => ~coach'.exerciseState.handstand.isInHandstand

\* the hold duration told on leaving the handstand
HoldReported ==
    (Leaving /\ coach.speakCallback) =>
        \E i \in 1..Len(said') :
            /\ said'[i].type = "handstand_exit"
            /\ said'[i].holdTime >= 0
            /\ said'[i].holdTime * 100
                    = now - coach.exerciseState.handstand.entryTime

C26_Original ==
    [][HandstandEvaluated =>
        /\ call.calls = 0 => ~coach.exerciseState.handstand.isInHandstand
        /\ HandstandMachineStep
        /\ HoldReported]_vars

(***************************************************************************)
(* C27: after every evaluated handstand frame the stored inverted flag     *)
(* equals the result of the inversion test on that frame: the machine      *)
(* never holds inverted after a frame that is not inverted, nor            *)
(* not-inverted after one that is.                                         *)
(***************************************************************************)
C27_FlagFollowsFrame ==
    (Evaluated /\ call.exerciseType = "handstand" /\ CallFrame.length = 33) =>
        coach.exerciseState.handstand.isInHandstand = InversionTest(call.landmarks)

\* a frame of a push-up pose evaluated after a handstand was entered: the
\* flag is down again, the counter keeps the entry
C27_Witness ==
    /\ Evaluated
    /\ call.exerciseType = "handstand"
    /\ call.landmarks = "pu_good"
    /\ ~InversionTest(call.landmarks)
    /\ coach.exerciseState.handstand.repCount = 1
    /\ coach.exerciseState.handstand.entryTime = StartTime
    /\ now > StartTime
    /\ ~coach.exerciseState.handstand.isInHandstand

(***************************************************************************)
(* C28: only the state machine of the frame's exercise type is updated per *)
(* frame: evaluating a pushup frame leaves the handstand state (inverted   *)
(* flag, entry time, rep count) unchanged, evaluating a handstand frame    *)
(* leaves the push-up state (position, rep count, last-rep time)           *)
(* unchanged, and evaluating a frame of unknown type leaves both           *)
(* unchanged.  A step is one evaluate call.                                *)
(***************************************************************************)
EvaluatedAs(exerciseType) ==
    /\ call'.op = "analyzeAndCoach"
    /\ call'.calls = call.calls + 1
    /\ call'.exerciseType = exerciseType

C28_OneMachinePerFrame ==
    [][/\ EvaluatedAs("pushup") =>
            coach'.exerciseState.handstand = coach.exerciseState.handstand
       /\ EvaluatedAs("handstand") =>
            coach'.exerciseState.pushup = coach.exerciseState.pushup
       /\ (\E e \in ExerciseTypes \ {"pushup", "handstand"} : EvaluatedAs(e)) =>
            coach'.exerciseState = coach.exerciseState]_vars

\* a bent-arm frame evaluated as a push-up on a coach that is in a
\* handstand: the push-up machine went down, the handstand one is as it was
C28_Witness ==
    /\ Evaluated
    /\ call.exerciseType = "pushup"
    /\ call.landmarks = "pu_low"
    /\ coach.exerciseState.pushup.position = "down"
    /\ coach.exerciseState.handstand.isInHandstand
    /\ coach.exerciseState.handstand.repCount = 1

(***************************************************************************)
(* C29: an evaluate call with null or empty landmarks changes nothing: the *)
(* history buffer, the session statistics and both exercise state machines *)
(* are the same after the call as before it.  A step is one such call.     *)
(***************************************************************************)
EvaluatedWithout ==
    /\ call'.op = "analyzeAndCoach"
    /\ call'.calls = call.calls + 1
    /\ (Frames[call'.landmarks].isNull \/ Frames[call'.landmarks].length = 0)

C29_NoLandmarksNoChange ==
    [][EvaluatedWithout =>
        /\ coach'.frameHistory = coach.frameHistory
        /\ getSessionStats(coach'.frameHistory) = getSessionStats(coach.frameHistory)
        /\ coach'.exerciseState = coach.exerciseState
        /\ coach' = coach]_vars

\* a call without landmarks, under pushup, on a coach that has a frame in
\* its history and is in the down position
C29_Witness ==
    /\ Evaluated
    /\ call.landmarks \in {"null", "empty"}
    /\ call.exerciseType = "pushup"
    /\ call.dirty
    /\ Len(coach.frameHistory) = 1
    /\ coach.exerciseState.pushup.position = "down"

(***************************************************************************)
(* C30: the per-frame push-up feedback is the first matching rule of the   *)
(* ladder: (1) either elbow angle < 70: critical, arms too bent; (2)       *)
(* either elbow angle > 150: critical, lower down more; (3) body not       *)
(* straight: major, keep body straight; (4) |left - right| > 15: major,    *)
(* balance both arms; (5) otherwise success, excellent form.  Exactly one  *)
(* primary message is chosen for every input, that of the lowest-numbered  *)
(* matching rule.                                                          *)
(***************************************************************************)
Laddered == fn.name = "analyzePushup"

\* the body line of a frame of 33 entries is measured and is not straight
BodyNotStraight(f) ==
    /\ Frames[f].at[11].def /\ Frames[f].at[23].def /\ Frames[f].at[27].def
    /\ \/ Abs(Frames[f].at[11].y - Frames[f].at[23].y) >= 2
       \/ Abs(Frames[f].at[23].y - Frames[f].at[27].y) >= 2

FirstRule(f, l, r) ==
    IF l < 70 \/ r < 70 THEN 1
    ELSE IF l > 150 \/ r > 150 THEN 2
    ELSE IF BodyNotStraight(f) THEN 3
    ELSE IF Abs(l - r) > 15 THEN 4
    ELSE 5

RuleMessage ==
    <<"Arms too bent - push higher!", "Lower down more for full range",
      "Keep your body straight", "Balance both arms equally", "Excellent form!">>

RulePriority == <<"critical", "critical", "major", "major", "success">>

C30_FirstMatchingRule ==
    Laddered =>
        /\ fn.ret.primaryFeedback
                = RuleMessage[FirstRule(fn.landmarks, fn.leftElbow, fn.rightElbow)]
        /\ fn.ret.priority
                = RulePriority[FirstRule(fn.landmarks, fn.leftElbow, fn.rightElbow)]

\* left below 70 and right above 150 on a sagging body: rules 1, 2, 3 and 4
\* all match and rule 1 is taken
C30_Witness ==
    /\ Laddered
    /\ fn.landmarks = "pu_sag"
    /\ fn.leftElbow = 69
    /\ fn.rightElbow = 151
    /\ fn.ret.primaryFeedback = "Arms too bent - push higher!"
    /\ fn.ret.priority = "critical"

(***************************************************************************)
(* C31 as stated: the per-frame handstand feedback is the first matching   *)
(* rule of the ladder: (1) either elbow angle < 160: critical, extend your *)
(* arms fully; (2) either alignment angle < 160: critical, straighten your *)
(* body line; (3) wrist midpoint and shoulder midpoint differing           *)
(* horizontally by more than 0.1: major, center your weight; (4) |left -   *)
(* right alignment| > 10: major, keep both sides aligned; (5) otherwise    *)
(* success, amazing handstand form.  The midpoints are halves of sums, so  *)
(* 0.1 between them is 4 between the sums in twentieths.                   *)
(***************************************************************************)
HandstandLaddered == fn.name = "analyzeHandstand"

\* the distance of the wrist midpoint from the shoulder midpoint, doubled,
\* of a frame of 33 entries; -1 when one of the four landmarks is missing
MidpointGap2(f) ==
    IF \E i \in {11, 12, 15, 16} : ~Frames[f].at[i].def THEN -1
    ELSE Abs((Frames[f].at[15].x + Frames[f].at[16].x)
             - (Frames[f].at[11].x + Frames[f].at[12].x))

HandstandRuleMessage ==
    <<"Extend your arms fully", "Straighten your body line",
      "Center your weight over hands", "Keep both sides aligned",
      "Amazing handstand form!">>

\* the first matching rule, rule 3 matching when offCentre holds
HandstandFirstRule(offCentre) ==
    IF fn.leftElbow < 160 \/ fn.rightElbow < 160 THEN 1
    ELSE IF fn.leftAlignment < 160 \/ fn.rightAlignment < 160 THEN 2
    ELSE IF offCentre THEN 3
    ELSE IF Abs(fn.leftAlignment - fn.rightAlignment) > 10 THEN 4
    ELSE 5

C31_Original ==
    HandstandLaddered =>
        /\ fn.ret.primaryFeedback
                = HandstandRuleMessage[HandstandFirstRule(MidpointGap2(fn.landmarks) > 4)]
        /\ fn.ret.priority
                = RulePriority[HandstandFirstRule(MidpointGap2(fn.landmarks) > 4)]

(***************************************************************************)
(* C31 amended: the per-frame handstand feedback is the first matching     *)
(* rule of the ladder, rules 1, 2, 4 and 5 as stated, rule 3 being: wrist  *)
(* midpoint and shoulder midpoint differing horizontally by 0.1 or more    *)
(* (a distance of exactly 0.1 is already off-centre): major, center your   *)
(* weight.  Exactly one primary message is chosen for every input.         *)
(***************************************************************************)
C31_HandstandLadder ==
    HandstandLaddered =>
        /\ fn.ret.primaryFeedback
                = HandstandRuleMessage[HandstandFirstRule(MidpointGap2(fn.landmarks) >= 4)]
        /\ fn.ret.priority
                = RulePriority[HandstandFirstRule(MidpointGap2(fn.landmarks) >= 4)]

\* straight arms and body, the wrists exactly 0.1 beside the shoulders
C31_Witness ==
    /\ HandstandLaddered
    /\ fn.landmarks = "hs_off"
    /\ MidpointGap2(fn.landmarks) = 4
    /\ fn.leftElbow = 180 /\ fn.rightElbow = 180
    /\ fn.leftAlignment = 180 /\ fn.rightAlignment = 160
    /\ fn.ret.primaryFeedback = "Center your weight over hands"
    /\ fn.ret.priority = "major"

(***************************************************************************)
(* C32: a geometric sub-check that throws on a malformed frame fails open: *)
(* a fault inside a sub-check never by itself produces a corrective        *)
(* message, an extra tip or a state-machine transition.  For the inversion *)
(* check of the handstand: the evaluation of a frame of 33 entries on      *)
(* which the check cannot read the left shoulder, wrist or hip leaves the  *)
(* inverted flag, the entry time and the counter as they were.             *)
(***************************************************************************)
\* a frame on which checkHandstandInversion cannot read one of its landmarks
InversionFault(f) ==
    \E i \in {11, 15, 23} : ~Frames[f].at[i].def

C32_Original ==
    [][(HandstandEvaluated /\ InversionFault(call'.landmarks)) =>
        coach'.exerciseState.handstand = coach.exerciseState.handstand]_vars

(***************************************************************************)
(* C33: the stable primary message differs from the message of the latest  *)
(* frame only when the latest frame is the single dissenting entry of a    *)
(* window of 4 or 5 entries whose other entries all carry one identical    *)
(* message, which is then the stable message.  Whenever the two most       *)
(* recent frames carry the same message, that message is the stable one;   *)
(* in the first three frames after a reset the stable message is the       *)
(* latest frame's.                                                         *)
(***************************************************************************)
\* the message of history entry i
MessageAt(i) == coach.frameHistory[i].feedback.primaryFeedback

HistoryLen == Len(coach.frameHistory)

\* the latest frame alone dissents from the message msg in a window of 4 or 5
SingleDissent(msg) ==
    /\ HistoryLen >= 4
    /\ MessageAt(HistoryLen) # msg
    /\ \A i \in 1..4 : (HistoryLen - i >= 1 /\ i < 5) =>
            MessageAt(HistoryLen - i) = msg

C33_OneFrameDelay ==
    (WithLandmarks /\ HistoryLen > 0) =>
        /\ ret.primaryFeedback # MessageAt(HistoryLen) =>
                SingleDissent(ret.primaryFeedback)
        /\ (HistoryLen >= 2 /\ MessageAt(HistoryLen - 1) = MessageAt(HistoryLen)) =>
                ret.primaryFeedback = MessageAt(HistoryLen)
        /\ HistoryLen <= 3 => ret.primaryFeedback = MessageAt(HistoryLen)

\* four frames of good form, then arms bent too far: the answer stays with
\* the good form
C33_Witness ==
    /\ WithLandmarks
    /\ HistoryLen = 5
    /\ \A i \in 1..4 : MessageAt(i) = "Excellent form!"
    /\ MessageAt(5) = "Arms too bent - push higher!"
    /\ ret.primaryFeedback = "Excellent form!"

(***************************************************************************)
(* C34: for every non-empty history the stable primary message is the      *)
(* message of one of the entries of the window, the last min(5, n) history *)
(* entries; at most one message holds 70% of the window, so the answer is  *)
(* determined by the contents of the window: it is the message that holds  *)
(* 70% when there is one and the latest entry's message otherwise, in      *)
(* whatever order the messages are tallied.                                *)
(***************************************************************************)
\* the messages of the last min(5, n) history entries
WindowMessages ==
    {MessageAt(i) : i \in {j \in 1..HistoryLen : j > HistoryLen - 5}}

\* the number of the last min(5, n) history entries that carry msg
WindowCount(msg) ==
    Cardinality({j \in 1..HistoryLen : j > HistoryLen - 5 /\ MessageAt(j) = msg})

WindowSize == IF HistoryLen < 5 THEN HistoryLen ELSE 5

C34_FromWindow ==
    (WithLandmarks /\ HistoryLen > 0) =>
        /\ ret.primaryFeedback \in WindowMessages
        /\ Cardinality({msg \in WindowMessages :
                            10 * WindowCount(msg) >= 7 * WindowSize}) <= 1
        /\ \A msg \in WindowMessages :
                10 * WindowCount(msg) >= 7 * WindowSize =>
                    ret.primaryFeedback = msg
        /\ (\A msg \in WindowMessages : 10 * WindowCount(msg) < 7 * WindowSize) =>
                ret.primaryFeedback = MessageAt(HistoryLen)

\* three messages in a window of five, none at 70%: the answer is the
\* latest entry's message, the second in the order of the tally
C34_Witness ==
    /\ WithLandmarks
    /\ HistoryLen = 6
    /\ MessageAt(2) = "Keep your body straight"
    /\ MessageAt(3) = "Excellent form!"
    /\ MessageAt(4) = "Keep your body straight"
    /\ MessageAt(5) = "Balance both arms equally"
    /\ MessageAt(6) = "Excellent form!"
    /\ ret.primaryFeedback = "Excellent form!"

(***************************************************************************)
(* C35: when a message holds 70% of the window, the priority, the tips and *)
(* the motivational text of the answer are those of the oldest entry of    *)
(* the window that carries the message, not those of the most recent       *)
(* frame.                                                                  *)
(***************************************************************************)
\* the index in the history of the oldest window entry carrying msg
OldestWith(msg) ==
    CHOOSE j \in 1..HistoryLen :
        /\ j > HistoryLen - 5
        /\ MessageAt(j) = msg
        /\ \A k \in 1..(j - 1) : k > HistoryLen - 5 => MessageAt(k) # msg

C35_OldestRepresents ==
    (/\ WithLandmarks
     /\ HistoryLen > 0
     /\ 10 * WindowCount(ret.primaryFeedback) >= 7 * WindowSize) =>
        /\ ret.priority
                = coach.frameHistory[OldestWith(ret.primaryFeedback)].feedback.priority
        /\ ret.tips
                = coach.frameHistory[OldestWith(ret.primaryFeedback)].feedback.tips
        /\ ret.motivational
                = coach.frameHistory[OldestWith(ret.primaryFeedback)].feedback.motivational

\* six frames of good form, each with a motivational text drawn anew: the
\* answer carries the text of the second frame, not that of the sixth
C35_Witness ==
    /\ WithLandmarks
    /\ HistoryLen = 6
    /\ \A i \in 1..6 : MessageAt(i) = "Excellent form!"
    /\ coach.frameHistory[1].feedback.motivational
            # coach.frameHistory[2].feedback.motivational
    /\ coach.frameHistory[6].feedback.motivational
            # coach.frameHistory[2].feedback.motivational
    /\ OldestWith("Excellent form!") = 2
    /\ ret.motivational = coach.frameHistory[2].feedback.motivational

(***************************************************************************)
(* C36: in every feedback evaluate returns, the priority is one of         *)
(* critical, major, minor, success and is the priority the rules assign to *)
(* the returned primary message; the feedback the push-up and handstand    *)
(* ladders give for a frame is never minor; the motivational text is       *)
(* non-empty exactly when the priority is success.                         *)
(***************************************************************************)
\* the priority the rules give with each primary message
PriorityOf(msg) ==
    CASE msg = "Position yourself in camera view" -> "critical"
      [] msg = "Select an exercise type" -> "minor"
      [] msg = "Get ready to start!" -> "minor"
      [] msg = "Arms too bent - push higher!" -> "critical"
      [] msg = "Lower down more for full range" -> "critical"
      [] msg = "Keep your body straight" -> "major"
      [] msg = "Balance both arms equally" -> "major"
      [] msg = "Excellent form!" -> "success"
      [] msg = "Extend your arms fully" -> "critical"
      [] msg = "Straighten your body line" -> "critical"
      [] msg = "Center your weight over hands" -> "major"
      [] msg = "Keep both sides aligned" -> "major"
      [] msg = "Amazing handstand form!" -> "success"
      [] OTHER -> "none"

GoodEntries ==
    {i \in 1..HistoryLen :
        coach.frameHistory[i].feedback.priority \in {"success", "minor"}}

C37_SessionStats ==
    /\ WithLandmarks =>
        /\ "sessionStats" \in DOMAIN ret
        /\ ret.sessionStats.totalFrames = HistoryLen
        /\ ret.sessionStats.totalFrames \in 1..10
        /\ ret.sessionStats.goodFormFrames = Cardinality(GoodEntries)
        /\ ret.sessionStats.goodFormFrames <= ret.sessionStats.totalFrames
        /\ ret.sessionStats.goodFormPercentage \in 0..100
        /\ 2 * HistoryLen * ret.sessionStats.goodFormPercentage
                <= 200 * Cardinality(GoodEntries) + HistoryLen
        /\ 200 * Cardinality(GoodEntries) + HistoryLen
                < 2 * HistoryLen * (ret.sessionStats.goodFormPercentage + 1)
    /\ getSessionStats(<<>>)
            = [totalFrames |-> 0, goodFormFrames |-> 0, goodFormPercentage |-> 0]

\* eleven frames: the first, of unknown type, has left the history; of the
\* ten retained the oldest is minor and five are a success: 6 of 10
C37_Witness ==
    /\ WithLandmarks
    /\ call.calls = 11
    /\ Len(log) = 11
    /\ log[1].angles = ZeroAngles
    /\ HistoryLen = 10
    /\ coach.frameHistory[1].feedback.priority = "minor"
    /\ Cardinality(GoodEntries) = 6
    /\ ret.sessionStats
            = [totalFrames |-> 10, goodFormFrames |-> 6, goodFormPercentage |-> 60]

(***************************************************************************)
(* C38: with a speech callback set, a priority request is always           *)
(* delivered; a non-priority request is delivered if and only if at least  *)
(* 4000 ms have passed since the last delivered speech and its type is not *)
(* among the most recently delivered types; the list of recent types never *)
(* holds more than 3 entries; a request that is not delivered changes no   *)
(* state.  A step is one call of speak; delivered means handed to the      *)
(* callback.                                                               *)
(***************************************************************************)
SpeakStep == call'.op = "speak" /\ call'.calls = call.calls + 1

Delivered == said' # <<>>

\* at least 4000 ms since the last message handed to the callback
CooledDown == log = <<>> \/ now - log[Len(log)].timestamp >= 4000

\* the types of the last three messages handed to the callback
LastDeliveredTypes ==
    {log[i].type : i \in {j \in 1..Len(log) : j > Len(log) - 3}}

C38_SpeakRule ==
    [][SpeakStep =>
        /\ call'.priority => Delivered
        /\ ~call'.priority =>
                (Delivered <=> (/\ CooledDown
                                /\ call'.feedbackType \notin LastDeliveredTypes))
        /\ Delivered => /\ Len(said') = 1
                        /\ said'[1].type = call'.feedbackType
        /\ Len(coach'.recentFeedbackTypes) <= 3
        /\ ~Delivered => coach' = coach]_vars

\* the first type has left the list of recent types after three deliveries
\* of the second, and is delivered again without priority once 4000 ms
\* have passed
C38_Witness ==
    /\ call.op = "speak"
    /\ ~call.priority
    /\ call.feedbackType = "pushup_good_form"
    /\ Len(log) = 5
    /\ log[1].type = "pushup_good_form"
    /\ \A i \in 2..4 : log[i].type = "pushup_good_depth"
    /\ log[5] = [timestamp |-> log[4].timestamp + 4000, type |-> "pushup_good_form"]
    /\ said # <<>>
    /\ Len(coach.recentFeedbackTypes) = 3

(***************************************************************************)
(* C39: the feedback evaluate returns does not depend on the exercise      *)
(* state machines or the voice layer: for every sequence of frames the     *)
(* PoseCoach of pose-coach.js returns the primary message, the priority    *)
(* and the tips that the earlier PoseCoach class of voice-coach.js returns *)
(* for the same sequence.                                                  *)
(***************************************************************************)
C39_SameFeedback ==
    Evaluated =>
        /\ ret.primaryFeedback = fn.ret.primaryFeedback
        /\ ret.priority = fn.ret.priority
        /\ ret.tips = fn.ret.tips

\* a rep counted and told, a handstand entered and left: the fifth answer
\* is that of the earlier class, which knows neither
C39_Witness ==
    /\ Evaluated
    /\ call.calls = 5
    /\ coach.exerciseState.pushup.repCount = 1
    /\ coach.exerciseState.handstand.repCount = 1
    /\ ~coach.exerciseState.handstand.isInHandstand
    /\ call.landmarks = "pu_good" /\ call.exerciseType = "handstand"
    /\ said # <<>>
    /\ Len(fn.frameHistory) = 5
    /\ ret.primaryFeedback = fn.ret.primaryFeedback
    /\ ret.tips = fn.ret.tips

====
